---- MODULE Spec2Model ----
(***************************************************************************)
(* Model of the Saros DLMM portfolio service (SarosDLMMService):           *)
(*   - the price cache and getTokenPrice (TTL memoisation of oracle        *)
(*     prices, fallback on failure),                                        *)
(*   - getUserPositions / processPosition (ledger fetch, per-position      *)
(*     processing with skip-on-failure, demonstration data fallback),      *)
(*   - calculateRiskLevel as a function of its three arguments,            *)
(*   - getPortfolioSummary and its helpers (risk score, diversification,   *)
(*     performers, portfolio age),                                         *)
(*   - calculateAPY (guards, cap and floor),                               *)
(* and of the hook useSarosDLMM that drives it (wallet changes, effects,   *)
(* the 60 s interval, overlapping fetchData runs).                         *)
(*                                                                         *)
(* Units.  Money is counted in milli-USD, token amounts of a processed     *)
(* position in milli-tokens, oracle prices in whole USD per token, time    *)
(* in milliseconds.  Percentages are exact rationals [num, den].           *)
(***************************************************************************)
EXTENDS Integers, Sequences, FiniteSets, TLC

VARIABLES
    priceCache,   \* this.priceCache : mint -> [price, timestamp] (a Map: a function on the cached keys)
    now,          \* Date.now(), in ms
    ticks,        \* how many times the clock has advanced
    calls,        \* the getTokenPrice invocations made so far, in call order
    prior,        \* per call, the calls that had completed when it was made
    lastWriter,   \* per mint, the index of the call whose response was handled by a cache write last
    gup,          \* the getUserPositions invocation
    risk,         \* the calculateRiskLevel evaluations on a price range and on a narrower one
    agg,          \* the array handed to getPortfolioSummary and the summaries returned for it
    apy,          \* the arguments of a calculateAPY call and its result
    hook          \* the useSarosDLMM hook: wallet, React state, timer, fetchData runs in flight

vars == <<priceCache, now, ticks, calls, prior, lastWriter, gup, risk, agg, apy, hook>>

-----------------------------------------------------------------------------
(* Bounds of the model *)

MaxTicks == 1
MaxCalls == 2
MaxPositions == 2

(* Program constants *)

CACHE_TTL == 30000
FallbackPrice == 1

(* The clock advances by one of these amounts (ms): just under, and exactly, the time to live *)
TickSteps == {29999, 30000}

(* Token mints known to the model *)
SOL_MINT == "So11111111111111111111111111111111111111112"
USDC_MINT == "EPjFWdd5AufqSSqeM2qN1xzybapC8G4wEGGkZwyTDt1v"
USDT_MINT == "Es9vMFrzaCERmJfrF4H2FYD4KCoNkY11McCe8BenwNYB"
Mints == {SOL_MINT, USDC_MINT}

(* Outcomes of `await fetch(...)`: an OK response, a non-OK response, a rejected fetch *)
Responses == {"ok", "notok", "neterr"}

(* Prices (USD) an oracle payload may carry for the id *)
PayloadPrices == {2, 3}

(* Outcomes of `await response.json()`: parsed = FALSE is a rejected json()    *)
(* (or a body on which data.data cannot be read); price = <<>> is a payload   *)
(* with no price for the id.                                                   *)
Bodies ==
    {[parsed |-> FALSE, price |-> <<>>]}
        \cup {[parsed |-> TRUE, price |-> q] : q \in {<<>>} \cup {<<p>> : p \in PayloadPrices}}

NoBody == [parsed |-> FALSE, price |-> <<>>]

-----------------------------------------------------------------------------
(* getTokenPrice *)

(* Mutant of CacheHit: an entry aged exactly CACHE_TTL still counts as fresh *)
CacheHitInclusive(cache, mint, t) ==
    /\ mint \in DOMAIN cache
    /\ t - cache[mint].timestamp <= CACHE_TTL

(* `cached && Date.now() - cached.timestamp < this.CACHE_TTL` *)
CacheHit(cache, mint, t) ==
    /\ mint \in DOMAIN cache
    /\ t - cache[mint].timestamp < CACHE_TTL

(* `data.data?.[mint]?.price || 1.0`: an absent price, and a price of 0, give the fallback *)
PriceOf(body) ==
    IF body.price = <<>> THEN FallbackPrice
    ELSE IF body.price[1] = 0 THEN FallbackPrice
    ELSE body.price[1]

(* Mutant of CacheSet: an existing entry is kept (first write wins) *)
CacheSetKeepFirst(cache, mint, entry) ==
    [m \in DOMAIN cache \cup {mint} |-> IF m \in DOMAIN cache THEN cache[m] ELSE entry]

(* this.priceCache.set(mint, entry) *)
CacheSet(cache, mint, entry) ==
    [m \in DOMAIN cache \cup {mint} |-> IF m = mint THEN entry ELSE cache[m]]

(* The synchronous part of a call: the cache lookup, and on a miss the fetch request *)
GetTokenPriceCall(cache, mint, t) ==
    LET seen == IF mint \in DOMAIN cache THEN <<cache[mint]>> ELSE <<>> IN
    IF CacheHit(cache, mint, t)
    THEN [mint |-> mint, pc |-> "done", start |-> t, seen |-> seen, fetched |-> FALSE,
          resp |-> "none", body |-> NoBody, ret |-> <<cache[mint].price>>,
          end |-> <<t>>, wrote |-> FALSE]
    ELSE [mint |-> mint, pc |-> "fetch", start |-> t, seen |-> seen, fetched |-> TRUE,
          resp |-> "none", body |-> NoBody, ret |-> <<>>,
          end |-> <<>>, wrote |-> FALSE]

(* Mutant of GetTokenPriceOnResponse: a failed refresh answers with the stale entry *)
GetTokenPriceOnResponseStale(call, resp, t) ==
    IF resp = "ok"
    THEN [call EXCEPT !.pc = "json", !.resp = resp]
    ELSE [call EXCEPT !.pc = "done", !.resp = resp, !.end = <<t>>,
                      !.ret = IF call.seen # <<>> THEN <<call.seen[1].price>> ELSE <<FallbackPrice>>]

(* The continuation after `await fetch(...)` *)
GetTokenPriceOnResponse(call, resp, t) ==
    IF resp = "ok"
    THEN [call EXCEPT !.pc = "json", !.resp = resp]
    ELSE [call EXCEPT !.pc = "done", !.resp = resp, !.ret = <<FallbackPrice>>, !.end = <<t>>]

(* The continuation after `await response.json()` *)
GetTokenPriceOnBody(call, body, t) ==
    IF body.parsed
    THEN [call EXCEPT !.pc = "done", !.body = body, !.ret = <<PriceOf(body)>>,
                      !.end = <<t>>, !.wrote = TRUE]
    ELSE [call EXCEPT !.pc = "done", !.body = body, !.ret = <<FallbackPrice>>, !.end = <<t>>]

(* Mutant of CacheAfterBody: the fetched price is returned but never stored *)
CacheAfterBodyNoStore(cache, call, body, t) == cache

(* The cache after the continuation after `await response.json()`: line 343 *)
CacheAfterBody(cache, call, body, t) ==
    IF body.parsed
    THEN CacheSet(cache, call.mint, [price |-> PriceOf(body), timestamp |-> t])
    ELSE cache

-----------------------------------------------------------------------------
(* Exact rationals, for the percentages and price ratios the code holds as floats *)

Abs(x) == IF x < 0 THEN -x ELSE x

RECURSIVE Gcd(_, _)
Gcd(a, b) == IF b = 0 THEN a ELSE Gcd(b, a % b)

(* n / d in lowest terms, d # 0 *)
Rat(n, d) ==
    LET g == Gcd(Abs(n), Abs(d))
        sgn == IF d < 0 THEN -1 ELSE 1
    IN [num |-> sgn * (n \div g), den |-> sgn * (d \div g)]

RatLeq(a, b) == a.num * b.den <= b.num * a.den
RatLess(a, b) == a.num * b.den < b.num * a.den
RatSub(a, b) == Rat(a.num * b.den - b.num * a.den, a.den * b.den)
RatDiv(a, b) == Rat(a.num * b.den, a.den * b.num)
RatMin(a, b) == IF RatLeq(a, b) THEN a ELSE b
RatAdd(a, b) == Rat(a.num * b.den + b.num * a.den, a.den * b.den)
RatMul(a, b) == Rat(a.num * b.num, a.den * b.den)

(* The non-finite values of a JavaScript number, written with denominator 0 *)
PosInfinity == [num |-> 1, den |-> 0]
NegInfinity == [num |-> -1, den |-> 0]
NaN == [num |-> 0, den |-> 0]
IsFinite(x) == x.den # 0

(* a / b on finite numbers: dividing by zero does not throw, it gives            *)
(* Infinity, -Infinity, or NaN for 0 / 0                                         *)
JsDiv(a, b) ==
    IF b.num # 0 THEN RatDiv(a, b)
    ELSE IF a.num > 0 THEN PosInfinity
    ELSE IF a.num < 0 THEN NegInfinity
    ELSE NaN

(* a < b: false whenever an operand is NaN *)
JsLess(a, b) ==
    IF a = NaN \/ b = NaN THEN FALSE
    ELSE IF a = b THEN FALSE
    ELSE IF a = NegInfinity \/ b = PosInfinity THEN TRUE
    ELSE IF a = PosInfinity \/ b = NegInfinity THEN FALSE
    ELSE RatLess(a, b)

(* Math.min(a, b): NaN when an operand is NaN *)
JsMin(a, b) ==
    IF a = NaN \/ b = NaN THEN NaN
    ELSE IF JsLess(b, a) THEN b ELSE a

(* x * c and x + y for a finite c; NaN and the infinities carry over (c > 0) *)
JsMul(x, c) == IF IsFinite(x) THEN RatMul(x, c) ELSE x
JsAdd(x, y) ==
    IF x = NaN \/ y = NaN THEN NaN
    ELSE IF ~IsFinite(x) /\ ~IsFinite(y) THEN (IF x = y THEN x ELSE NaN)
    ELSE IF ~IsFinite(x) THEN x
    ELSE IF ~IsFinite(y) THEN y
    ELSE RatAdd(x, y)

(* Math.round(x): the nearest integer, halves upwards; NaN for NaN *)
JsRound(x) ==
    IF ~IsFinite(x) THEN x
    ELSE Rat((2 * x.num + x.den) \div (2 * x.den), 1)

(* Math.floor(n / d) for integers n and d > 0 *)
JsFloorDiv(n, d) == n \div d

-----------------------------------------------------------------------------
(* Position analytics: the helpers of processPosition *)

(* getTokenMetadata: the static table, with the unknown-token fallback *)
getTokenMetadata(mint) ==
    IF mint = SOL_MINT THEN [symbol |-> "SOL", name |-> "Solana", decimals |-> 9]
    ELSE IF mint = USDC_MINT THEN [symbol |-> "USDC", name |-> "USD Coin", decimals |-> 6]
    ELSE IF mint = USDT_MINT THEN [symbol |-> "USDT", name |-> "Tether USD", decimals |-> 6]
    ELSE [symbol |-> "UNKNOWN", name |-> "Unknown Token", decimals |-> 6]

(* `${tokenXMetadata.symbol}-${tokenYMetadata.symbol}` *)
PairName(symX, symY) == <<symX, "-", symY>>

(* An amount of a bin is absent (<<>>) or a BN: its value in base units and     *)
(* whether it needs more than 53 bits, in which case BN.toNumber() throws.      *)
BnAmount(units) == <<[units |-> units, over53 |-> FALSE]>>
BnOver53 == <<[units |-> 0, over53 |-> TRUE]>>

(* Math.pow(10, 6) base units per token, i.e. this many per milli-token *)
BaseUnitsPerMilliToken == 1000

RECURSIVE SumBins(_, _)
SumBins(bins, side) ==
    IF bins = <<>> THEN 0
    ELSE LET amt == IF side = "x" THEN Head(bins).tokenXAmount ELSE Head(bins).tokenYAmount
         IN (IF amt = <<>> THEN 0 ELSE amt[1].units \div BaseUnitsPerMilliToken)
                + SumBins(Tail(bins), side)

(* calculateTokenAmounts throws when toNumber() is called on an amount over 53 bits *)
TokenAmountsThrow(position) ==
    \E k \in DOMAIN position.bins :
        \/ position.bins[k].tokenXAmount # <<>> /\ position.bins[k].tokenXAmount[1].over53
        \/ position.bins[k].tokenYAmount # <<>> /\ position.bins[k].tokenYAmount[1].over53

(* calculateTokenAmounts, in milli-tokens *)
calculateTokenAmounts(position) ==
    [tokenXAmount |-> SumBins(position.bins, "x"), tokenYAmount |-> SumBins(position.bins, "y")]

(* baseFees = 0.1 USD, in milli-USD; volumeMultiplier = 0.001, in milli-USD per USD *)
BaseFeesMilli == 100
VolumeMultiplierMilli == 1

(* Mutant of calculateFeesUSD: no base fee *)
calculateFeesUSDNoBase(position, tokenXPrice, tokenYPrice) ==
    (position.tokenXAmount * tokenXPrice + position.tokenYAmount * tokenYPrice) * VolumeMultiplierMilli

(* calculateFeesUSD, in milli-USD; position.tokenXAmount || 0 is 0 when absent *)
calculateFeesUSD(position, tokenXPrice, tokenYPrice) ==
    LET positionValue == position.tokenXAmount * tokenXPrice + position.tokenYAmount * tokenYPrice
    IN BaseFeesMilli + positionValue * VolumeMultiplierMilli

Max(a, b) == IF a >= b THEN a ELSE b

(* Mutant of PnlUSD: the fees are left out of the profit *)
PnlUSDNoFees(currentValueUSD, initialValueUSD, feesUSD) == currentValueUSD - initialValueUSD

(* `currentValueUSD - initialValueUSD + feesUSD` *)
PnlUSD(currentValueUSD, initialValueUSD, feesUSD) == currentValueUSD - initialValueUSD + feesUSD

(* `initialValueUSD > 0 ? (pnlUSD / initialValueUSD) * 100 : 0` *)
PnlPercentage(pnlUSD, initialValueUSD) ==
    IF initialValueUSD > 0 THEN Rat(pnlUSD * 100, initialValueUSD) ELSE Rat(0, 1)

(* Mutant of getPriceRange: one percent either side of the price *)
getPriceRangeNarrow(position, lbPair) ==
    [priceRangeLower |-> Rat(99, 100), priceRangeUpper |-> Rat(101, 100)]

(* getPriceRange: 1.0 * (1 - 0.1) and 1.0 * (1 + 0.1), whatever the bins and the pool *)
getPriceRange(position, lbPair) ==
    [priceRangeLower |-> Rat(9, 10), priceRangeUpper |-> Rat(11, 10)]

(* Mutant of calculateRiskLevel: a wide range, not a narrow one, counts as risky *)
calculateRiskLevelWide(lower, upper, current) ==
    LET rangePercentage == JsDiv(RatSub(upper, lower), lower)
        distanceToLower == JsDiv(RatSub(current, lower), lower)
        distanceToUpper == JsDiv(RatSub(upper, current), upper)
        minDistance == JsMin(distanceToLower, distanceToUpper)
    IN IF JsLess(Rat(5, 100), rangePercentage) /\ JsLess(minDistance, Rat(2, 100)) THEN "High"
       ELSE IF JsLess(Rat(5, 100), rangePercentage) \/ JsLess(minDistance, Rat(5, 100)) THEN "Medium"
       ELSE "Low"

(* calculateRiskLevel on finite numbers.  No statement of its try block throws   *)
(* on numbers (a division by zero gives Infinity or NaN), so its catch is never  *)
(* entered.                                                                      *)
calculateRiskLevel(lower, upper, current) ==
    LET rangePercentage == JsDiv(RatSub(upper, lower), lower)
        distanceToLower == JsDiv(RatSub(current, lower), lower)
        distanceToUpper == JsDiv(RatSub(upper, current), upper)
        minDistance == JsMin(distanceToLower, distanceToUpper)
    IN IF JsLess(rangePercentage, Rat(5, 100)) /\ JsLess(minDistance, Rat(2, 100)) THEN "High"
       ELSE IF JsLess(rangePercentage, Rat(5, 100)) \/ JsLess(minDistance, Rat(5, 100)) THEN "Medium"
       ELSE "Low"

(* countActiveBins: bins with a positive X or Y amount *)
countActiveBins(position) ==
    Cardinality({k \in DOMAIN position.bins :
        \/ position.bins[k].tokenXAmount # <<>> /\ position.bins[k].tokenXAmount[1].units > 0
        \/ position.bins[k].tokenYAmount # <<>> /\ position.bins[k].tokenYAmount[1].units > 0})

(* 1000 * 60 * 60 * 24 ms *)
DAY_MS == 86400000

(* An id is a string, or the template `pos_${Date.now()}` with its clock reading *)
Id(text) == [text |-> text, stamp |-> <<>>]
ClockId(t) == [text |-> "pos_", stamp |-> <<t>>]

(* The record processPosition builds once both prices are known (lines 108-163). *)
(* The raw positions of the model carry no createdAt, so metadata.createdAt is   *)
(* `new Date()`, like lastUpdated.  The fields apy and metadata.feeTier are not  *)
(* modelled.                                                                     *)
BuildPosition(position, lbPair, tokenXPrice, tokenYPrice, t) ==
    LET tokenXMetadata == getTokenMetadata(lbPair.tokenXMint)
        tokenYMetadata == getTokenMetadata(lbPair.tokenYMint)
        amounts == calculateTokenAmounts(position)
        currentValueUSD == amounts.tokenXAmount * tokenXPrice + amounts.tokenYAmount * tokenYPrice
        feesUSD == calculateFeesUSD(position, tokenXPrice, tokenYPrice)
        initialValueUSD == Max(0, currentValueUSD - feesUSD)
        pnlUSD == PnlUSD(currentValueUSD, initialValueUSD, feesUSD)
        range == getPriceRange(position, lbPair)
        currentPrice == Rat(tokenYPrice, tokenXPrice)
    IN [id |-> IF position.id # <<>> THEN Id(position.id[1]) ELSE ClockId(t),
        poolAddress |-> position.lbPair,
        pairName |-> PairName(tokenXMetadata.symbol, tokenYMetadata.symbol),
        liquidity |-> currentValueUSD,
        currentValueUSD |-> currentValueUSD,
        initialValueUSD |-> initialValueUSD,
        totalFeesUSD |-> feesUSD,
        pnlUSD |-> pnlUSD,
        pnlPercentage |-> PnlPercentage(pnlUSD, initialValueUSD),
        tokenXAmount |-> amounts.tokenXAmount,
        tokenYAmount |-> amounts.tokenYAmount,
        tokenXSymbol |-> tokenXMetadata.symbol,
        tokenYSymbol |-> tokenYMetadata.symbol,
        priceRangeLower |-> range.priceRangeLower,
        priceRangeUpper |-> range.priceRangeUpper,
        currentPrice |-> currentPrice,
        inRange |-> RatLeq(range.priceRangeLower, currentPrice)
                        /\ RatLeq(currentPrice, range.priceRangeUpper),
        riskLevel |-> calculateRiskLevel(range.priceRangeLower, range.priceRangeUpper, currentPrice),
        activeBins |-> countActiveBins(position),
        lastUpdated |-> t,
        createdAt |-> t]

(* Mutant of getMockPositions: the demonstration set in another order *)
getMockPositionsReordered(t) ==
    << [id |-> Id("mock_pos_2"), poolAddress |-> USDC_MINT, pairName |-> PairName("USDC", "USDT"),
        liquidity |-> 2500000, currentValueUSD |-> 2480000, initialValueUSD |-> 2500000,
        totalFeesUSD |-> 45000, pnlUSD |-> 25000, pnlPercentage |-> Rat(1, 1),
        tokenXAmount |-> 2480000, tokenYAmount |-> 2480000,
        tokenXSymbol |-> "USDC", tokenYSymbol |-> "USDT",
        priceRangeLower |-> Rat(995, 1000), priceRangeUpper |-> Rat(1005, 1000),
        currentPrice |-> Rat(1002, 1000), inRange |-> TRUE, riskLevel |-> "Low", activeBins |-> 8,
        lastUpdated |-> t, createdAt |-> t - 14 * DAY_MS],
       [id |-> Id("mock_pos_1"), poolAddress |-> SOL_MINT, pairName |-> PairName("SOL", "USDC"),
        liquidity |-> 5000000, currentValueUSD |-> 5250000, initialValueUSD |-> 5000000,
        totalFeesUSD |-> 125000, pnlUSD |-> 375000, pnlPercentage |-> Rat(75, 10),
        tokenXAmount |-> 10500, tokenYAmount |-> 4200000,
        tokenXSymbol |-> "SOL", tokenYSymbol |-> "USDC",
        priceRangeLower |-> Rat(95, 1), priceRangeUpper |-> Rat(105, 1),
        currentPrice |-> Rat(100, 1), inRange |-> TRUE, riskLevel |-> "Low", activeBins |-> 12,
        lastUpdated |-> t, createdAt |-> t - 7 * DAY_MS],
       [id |-> Id("mock_pos_3"), poolAddress |-> USDT_MINT, pairName |-> PairName("SOL", "USDT"),
        liquidity |-> 3000000, currentValueUSD |-> 2850000, initialValueUSD |-> 3000000,
        totalFeesUSD |-> 60000, pnlUSD |-> -90000, pnlPercentage |-> Rat(-3, 1),
        tokenXAmount |-> 8500, tokenYAmount |-> 2850000,
        tokenXSymbol |-> "SOL", tokenYSymbol |-> "USDT",
        priceRangeLower |-> Rat(110, 1), priceRangeUpper |-> Rat(120, 1),
        currentPrice |-> Rat(105, 1), inRange |-> FALSE, riskLevel |-> "High", activeBins |-> 5,
        lastUpdated |-> t, createdAt |-> t - 3 * DAY_MS] >>

(* getMockPositions at clock reading t: the three demonstration positions       *)
(* (money in milli-USD, dates in ms)                                            *)
getMockPositions(t) ==
    << [id |-> Id("mock_pos_1"), poolAddress |-> SOL_MINT, pairName |-> PairName("SOL", "USDC"),
        liquidity |-> 5000000, currentValueUSD |-> 5250000, initialValueUSD |-> 5000000,
        totalFeesUSD |-> 125000, pnlUSD |-> 375000, pnlPercentage |-> Rat(75, 10),
        tokenXAmount |-> 10500, tokenYAmount |-> 4200000,
        tokenXSymbol |-> "SOL", tokenYSymbol |-> "USDC",
        priceRangeLower |-> Rat(95, 1), priceRangeUpper |-> Rat(105, 1),
        currentPrice |-> Rat(100, 1), inRange |-> TRUE, riskLevel |-> "Low", activeBins |-> 12,
        lastUpdated |-> t, createdAt |-> t - 7 * DAY_MS],
       [id |-> Id("mock_pos_2"), poolAddress |-> USDC_MINT, pairName |-> PairName("USDC", "USDT"),
        liquidity |-> 2500000, currentValueUSD |-> 2480000, initialValueUSD |-> 2500000,
        totalFeesUSD |-> 45000, pnlUSD |-> 25000, pnlPercentage |-> Rat(1, 1),
        tokenXAmount |-> 2480000, tokenYAmount |-> 2480000,
        tokenXSymbol |-> "USDC", tokenYSymbol |-> "USDT",
        priceRangeLower |-> Rat(995, 1000), priceRangeUpper |-> Rat(1005, 1000),
        currentPrice |-> Rat(1002, 1000), inRange |-> TRUE, riskLevel |-> "Low", activeBins |-> 8,
        lastUpdated |-> t, createdAt |-> t - 14 * DAY_MS],
       [id |-> Id("mock_pos_3"), poolAddress |-> USDT_MINT, pairName |-> PairName("SOL", "USDT"),
        liquidity |-> 3000000, currentValueUSD |-> 2850000, initialValueUSD |-> 3000000,
        totalFeesUSD |-> 60000, pnlUSD |-> -90000, pnlPercentage |-> Rat(-3, 1),
        tokenXAmount |-> 8500, tokenYAmount |-> 2850000,
        tokenXSymbol |-> "SOL", tokenYSymbol |-> "USDT",
        priceRangeLower |-> Rat(110, 1), priceRangeUpper |-> Rat(120, 1),
        currentPrice |-> Rat(105, 1), inRange |-> FALSE, riskLevel |-> "High", activeBins |-> 5,
        lastUpdated |-> t, createdAt |-> t - 3 * DAY_MS] >>

-----------------------------------------------------------------------------
(* The price cache under concurrent callers of getTokenPrice *)

IdleGup ==
    [pc |-> "idle", wallet |-> "", ledger |-> "none", raw |-> <<>>, i |-> 0, lookups |-> <<>>,
     lbPair |-> <<>>, px |-> <<>>, pcall |-> <<>>, processed |-> <<>>,
     outcome |-> "none", result |-> <<>>, requests |-> 0]

(* No calculateRiskLevel evaluation, no getPortfolioSummary call, no             *)
(* calculateAPY call, no hook mounted                                           *)
IdleRisk == <<>>
IdleAgg == <<>>
IdleApy == <<>>
IdleHook == <<>>

InitCache ==
    /\ priceCache = <<>>
    /\ now = 0
    /\ ticks = 0
    /\ calls = <<>>
    /\ prior = <<>>
    /\ lastWriter = <<>>
    /\ gup = IdleGup
    /\ apy = IdleApy
    /\ hook = IdleHook
    /\ risk = IdleRisk
    /\ agg = IdleAgg

Tick(d) ==
    /\ ticks < MaxTicks
    /\ now' = now + d
    /\ ticks' = ticks + 1
    /\ UNCHANGED <<priceCache, calls, prior, lastWriter, gup, risk, agg, apy, hook>>

CallGetTokenPrice(mint) ==
    /\ Len(calls) < MaxCalls
    /\ calls' = Append(calls, GetTokenPriceCall(priceCache, mint, now))
    /\ prior' = Append(prior, {i \in DOMAIN calls : calls[i].pc = "done"})
    /\ UNCHANGED <<priceCache, now, ticks, lastWriter, gup, risk, agg, apy, hook>>

FetchSettles(k, resp) ==
    /\ calls[k].pc = "fetch"
    /\ calls' = [calls EXCEPT ![k] = GetTokenPriceOnResponse(calls[k], resp, now)]
    /\ UNCHANGED <<priceCache, now, ticks, prior, lastWriter, gup, risk, agg, apy, hook>>

JsonSettles(k, body) ==
    /\ calls[k].pc = "json"
    /\ calls' = [calls EXCEPT ![k] = GetTokenPriceOnBody(calls[k], body, now)]
    /\ priceCache' = CacheAfterBody(priceCache, calls[k], body, now)
    /\ lastWriter' = IF calls'[k].wrote
                     THEN [m \in DOMAIN lastWriter \cup {calls[k].mint} |->
                              IF m = calls[k].mint THEN k ELSE lastWriter[m]]
                     ELSE lastWriter
    /\ UNCHANGED <<now, ticks, prior, gup, risk, agg, apy, hook>>

NextCache ==
    \/ \E d \in TickSteps : Tick(d)
    \/ \E m \in Mints : CallGetTokenPrice(m)
    \/ \E k \in DOMAIN calls, r \in Responses : FetchSettles(k, r)
    \/ \E k \in DOMAIN calls, b \in Bodies : JsonSettles(k, b)

SpecCache == InitCache /\ [][NextCache]_vars

-----------------------------------------------------------------------------
(* getUserPositions and processPosition *)

(* Wallet address strings handed to getUserPositions; new PublicKey(...) throws *)
(* on the ones that are not a base58 32-byte key.                              *)
ValidAddresses == {"7xKXtg2CW87d97TXJSDpbD5jBkheTqA83TZRuJosgAsU"}
Wallets == ValidAddresses \cup {"not-a-public-key"}
PublicKeyThrows(walletAddress) == walletAddress \notin ValidAddresses

(* The ledger: pools and the raw positions getPositionsByUser may return *)
POOL_A == "PoolSolUsdc"
POOL_B == "PoolUsdcSol"

LBPairOf(pool) ==
    IF pool = POOL_A THEN [tokenXMint |-> SOL_MINT, tokenYMint |-> USDC_MINT]
    ELSE [tokenXMint |-> USDC_MINT, tokenYMint |-> SOL_MINT]

RawPositions ==
    { [id |-> <<"posA">>, lbPair |-> POOL_A,
       bins |-> <<[tokenXAmount |-> BnAmount(2000000), tokenYAmount |-> BnAmount(3000000)]>>,
       tokenXAmount |-> 5, tokenYAmount |-> 0],
      [id |-> <<>>, lbPair |-> POOL_B, bins |-> <<>>, tokenXAmount |-> 0, tokenYAmount |-> 0],
      [id |-> <<"posC">>, lbPair |-> POOL_A,
       bins |-> <<[tokenXAmount |-> BnOver53, tokenYAmount |-> <<>>]>>,
       tokenXAmount |-> 0, tokenYAmount |-> 0] }

(* Outcomes of `await this.dlmm.getPositionsByUser(userPubkey)` *)
LedgerResults ==
    {[threw |-> TRUE, positions |-> <<>>]}
        \cup {[threw |-> FALSE, positions |-> ps] :
                ps \in UNION {[1..n -> RawPositions] : n \in 0..MaxPositions}}

(* Outcomes of `await this.dlmm.getLBPair(position.lbPair)` *)
LBPairOutcomes == {"found", "null", "throws"}

(* Mutant of CatchAndReturnMock: the outer catch rethrows *)
CatchAndRethrow(g, t) == [g EXCEPT !.pc = "done", !.outcome = "raised"]

(* The outer catch, lines 75-79 *)
CatchAndReturnMock(g, t) ==
    [g EXCEPT !.pc = "done", !.outcome = "returned", !.result = getMockPositions(t)]

(* Mutant of OnAddressParseError: the address is parsed outside the try block *)
OnAddressParseErrorThrow(g, t) == [g EXCEPT !.pc = "done", !.outcome = "raised"]

(* new PublicKey(walletAddress) throws inside the try block, line 50 *)
OnAddressParseError(g, t) == CatchAndReturnMock(g, t)

(* `if (positions.length === 0) return this.getMockPositions()`, lines 55-58 *)
ReturnMockForEmpty(g, t) ==
    [g EXCEPT !.pc = "done", !.outcome = "returned", !.result = getMockPositions(t)]

(* processPosition(positions[idx]) runs up to `await this.dlmm.getLBPair(...)` *)
StartProcessPosition(g, idx) ==
    [g EXCEPT !.i = idx, !.pc = "lbPair", !.lbPair = <<>>, !.px = <<>>, !.pcall = <<>>]

(* The for loop moves on, or ends with `return processedPositions` (lines 62, 72-73) *)
AfterPosition(g) ==
    IF g.i < Len(g.raw)
    THEN StartProcessPosition(g, g.i + 1)
    ELSE [g EXCEPT !.pc = "done", !.outcome = "returned", !.result = g.processed,
                   !.lbPair = <<>>, !.px = <<>>, !.pcall = <<>>]

(* Mutant of OnPositionFailure: a failed position ends the batch *)
OnPositionFailureAbort(g) ==
    [g EXCEPT !.pc = "done", !.outcome = "returned", !.result = g.processed,
              !.lbPair = <<>>, !.px = <<>>, !.pcall = <<>>]

(* processPosition rethrows (168-171); the loop's catch logs and continues (66-69) *)
OnPositionFailure(g) == AfterPosition(g)

(* `processedPositions.push(processedPosition)`, line 65 *)
OnPositionProcessed(g, pos) == AfterPosition([g EXCEPT !.processed = Append(@, pos)])

(* Mutant of AwaitTokenPrice: the price is fetched without looking at the cache *)
AwaitTokenPriceNoCache(g, pc, mint, cache, t) ==
    LET c == GetTokenPriceCall(<<>>, mint, t) IN
    [g EXCEPT !.pc = pc, !.pcall = <<c>>,
              !.requests = IF c.fetched THEN @ + 1 ELSE @]

(* A getTokenPrice call made by processPosition (lines 105, 106) *)
AwaitTokenPrice(g, pc, mint, cache, t) ==
    LET c == GetTokenPriceCall(cache, mint, t) IN
    [g EXCEPT !.pc = pc, !.pcall = <<c>>,
              !.requests = IF c.fetched THEN @ + 1 ELSE @]

GetUserPositions(walletAddress) ==
    /\ gup.pc = "idle"
    /\ gup' = IF PublicKeyThrows(walletAddress)
              THEN OnAddressParseError([gup EXCEPT !.wallet = walletAddress], now)
              ELSE [gup EXCEPT !.wallet = walletAddress, !.pc = "ledger"]
    /\ UNCHANGED <<priceCache, now, ticks, calls, prior, lastWriter, risk, agg, apy, hook>>

LedgerSettles(res) ==
    /\ gup.pc = "ledger"
    /\ gup' = IF res.threw THEN CatchAndReturnMock([gup EXCEPT !.ledger = "threw"], now)
              ELSE IF Len(res.positions) = 0 THEN ReturnMockForEmpty([gup EXCEPT !.ledger = "empty"], now)
              ELSE StartProcessPosition([gup EXCEPT !.ledger = "some", !.raw = res.positions], 1)
    /\ UNCHANGED <<priceCache, now, ticks, calls, prior, lastWriter, risk, agg, apy, hook>>

LBPairSettles(out) ==
    /\ gup.pc = "lbPair"
    /\ LET g == [gup EXCEPT !.lookups = Append(@, out)]
           position == gup.raw[gup.i]
           lbPair == LBPairOf(position.lbPair)
       IN gup' = IF out # "found" THEN OnPositionFailure(g)
                 ELSE IF TokenAmountsThrow(position) THEN OnPositionFailure(g)
                 ELSE AwaitTokenPrice([g EXCEPT !.lbPair = <<lbPair>>], "priceX",
                                      lbPair.tokenXMint, priceCache, now)
    /\ UNCHANGED <<priceCache, now, ticks, calls, prior, lastWriter, risk, agg, apy, hook>>

PriceFetchSettles(resp) ==
    /\ gup.pc \in {"priceX", "priceY"}
    /\ gup.pcall[1].pc = "fetch"
    /\ gup' = [gup EXCEPT !.pcall = <<GetTokenPriceOnResponse(gup.pcall[1], resp, now)>>]
    /\ UNCHANGED <<priceCache, now, ticks, calls, prior, lastWriter, risk, agg, apy, hook>>

PriceJsonSettles(body) ==
    /\ gup.pc \in {"priceX", "priceY"}
    /\ gup.pcall[1].pc = "json"
    /\ gup' = [gup EXCEPT !.pcall = <<GetTokenPriceOnBody(gup.pcall[1], body, now)>>]
    /\ priceCache' = CacheAfterBody(priceCache, gup.pcall[1], body, now)
    /\ UNCHANGED <<now, ticks, calls, prior, lastWriter, risk, agg, apy, hook>>

TokenXPriceResolved ==
    /\ gup.pc = "priceX"
    /\ gup.pcall[1].pc = "done"
    /\ gup' = AwaitTokenPrice([gup EXCEPT !.px = gup.pcall[1].ret], "priceY",
                              gup.lbPair[1].tokenYMint, priceCache, now)
    /\ UNCHANGED <<priceCache, now, ticks, calls, prior, lastWriter, risk, agg, apy, hook>>

TokenYPriceResolved ==
    /\ gup.pc = "priceY"
    /\ gup.pcall[1].pc = "done"
    /\ gup' = OnPositionProcessed(gup,
                  BuildPosition(gup.raw[gup.i], gup.lbPair[1], gup.px[1], gup.pcall[1].ret[1], now))
    /\ UNCHANGED <<priceCache, now, ticks, calls, prior, lastWriter, risk, agg, apy, hook>>

(* The invocation is suspended on the ledger or on the oracle *)
AwaitingIO ==
    \/ gup.pc \in {"ledger", "lbPair"}
    \/ gup.pc \in {"priceX", "priceY"} /\ gup.pcall[1].pc \in {"fetch", "json"}

(* While the invocation is suspended the clock may pass the cache's time to live *)
FacadeTickSteps == {30000}

TickWhileAwaiting(d) ==
    /\ AwaitingIO
    /\ Tick(d)

FacadeStep ==
    \/ \E w \in Wallets : GetUserPositions(w)
    \/ \E res \in LedgerResults : LedgerSettles(res)
    \/ \E out \in LBPairOutcomes : LBPairSettles(out)
    \/ \E r \in Responses : PriceFetchSettles(r)
    \/ \E b \in Bodies : PriceJsonSettles(b)
    \/ TokenXPriceResolved
    \/ TokenYPriceResolved

Next ==
    \/ FacadeStep
    \/ \E d \in FacadeTickSteps : TickWhileAwaiting(d)

Init == InitCache

Spec == Init /\ [][Next]_vars

-----------------------------------------------------------------------------
(* calculateRiskLevel as a function of its three arguments *)

(* How many evaluations of calculateRiskLevel are recorded *)
MaxRiskEvals == 2

(* Prices (whole units) the bounds and the current price are drawn from *)
RiskPrices == {0, 90, 96, 98, 100, 102, 104, 110}

InitRisk ==
    /\ priceCache = <<>>
    /\ now = 0
    /\ ticks = 0
    /\ calls = <<>>
    /\ prior = <<>>
    /\ lastWriter = <<>>
    /\ gup = IdleGup
    /\ apy = IdleApy
    /\ hook = IdleHook
    /\ agg = IdleAgg
    /\ \E l, u, c \in RiskPrices :
          risk = [lower |-> l, upper |-> u, current |-> c, evals |-> <<>>]

(* this.calculateRiskLevel(lower, upper, current) is called and returns *)
CalculateRiskLevel ==
    /\ Len(risk.evals) < MaxRiskEvals
    /\ \A k \in DOMAIN risk.evals :
          <<risk.evals[k].lower, risk.evals[k].upper>> # <<risk.lower, risk.upper>>
    /\ risk' = [risk EXCEPT !.evals = Append(@,
                    [lower |-> risk.lower, upper |-> risk.upper, current |-> risk.current,
                     level |-> calculateRiskLevel(Rat(risk.lower, 1), Rat(risk.upper, 1),
                                                  Rat(risk.current, 1))])]
    /\ UNCHANGED <<priceCache, now, ticks, calls, prior, lastWriter, gup, agg, apy, hook>>

(* The caller's range shrinks toward the current price *)
NarrowRange(l, u) ==
    /\ 0 < risk.lower /\ risk.lower <= l /\ l <= risk.current
    /\ risk.current <= u /\ u <= risk.upper
    /\ l < u
    /\ <<l, u>> # <<risk.lower, risk.upper>>
    /\ risk' = [risk EXCEPT !.lower = l, !.upper = u]
    /\ UNCHANGED <<priceCache, now, ticks, calls, prior, lastWriter, gup, agg, apy, hook>>

NextRisk ==
    \/ CalculateRiskLevel
    \/ \E l, u \in RiskPrices : NarrowRange(l, u)

SpecRisk == InitRisk /\ [][NextRisk]_vars

-----------------------------------------------------------------------------
(* getPortfolioSummary and its helpers.  averageAPY and metrics.volatilityScore  *)
(* (a floating-point power and a square root) are not modelled.                  *)

RECURSIVE SumSeq(_)
SumSeq(xs) == IF xs = <<>> THEN 0 ELSE Head(xs) + SumSeq(Tail(xs))

(* Math.max(...xs) for a non-empty xs *)
RECURSIVE MaxSeq(_)
MaxSeq(xs) == IF Len(xs) = 1 THEN xs[1] ELSE Max(Head(xs), MaxSeq(Tail(xs)))

ValuesOf(positions) == [k \in DOMAIN positions |-> positions[k].currentValueUSD]

(* positions.filter(test).length, given the outcome of the test on each position *)
CountWhere(tests) == Cardinality({k \in DOMAIN tests : tests[k]})

(* Mutant of countUniqueTokens: only the X side of each pair is counted *)
countUniqueTokensXOnly(positions) ==
    Cardinality({positions[k].tokenXSymbol : k \in DOMAIN positions})

(* countUniqueTokens: the size of the set of X and Y symbols *)
countUniqueTokens(positions) ==
    Cardinality({positions[k].tokenXSymbol : k \in DOMAIN positions}
                    \cup {positions[k].tokenYSymbol : k \in DOMAIN positions})

Min(a, b) == IF a <= b THEN a ELSE b

(* calculateDiversificationScore *)
calculateDiversificationScore(positions) ==
    IF Len(positions) <= 1 THEN 0
    ELSE LET uniqueTokens == countUniqueTokens(positions)
             positionCount == Len(positions)
             tokenScore == Min(50, uniqueTokens * 10)
             positionScore == Min(50, positionCount * 5)
         IN Min(100, tokenScore + positionScore)

(* calculatePortfolioRisk.  Nothing in its try block throws on an array of       *)
(* positions; a zero total value makes the concentration term 0 / 0 = NaN, which *)
(* Math.min and Math.round hand on.                                              *)
calculatePortfolioRisk(positions) ==
    IF Len(positions) = 0 THEN Rat(0, 1)
    ELSE LET totalValue == SumSeq(ValuesOf(positions))
             maxPositionValue == MaxSeq(ValuesOf(positions))
             concentrationRisk == JsMul(JsDiv(Rat(maxPositionValue, 1), Rat(totalValue, 1)), Rat(50, 1))
             outOfRangeCount == CountWhere([k \in DOMAIN positions |-> ~positions[k].inRange])
             outOfRangeRisk == Rat(outOfRangeCount * 30, Len(positions))
             highRiskCount == CountWhere([k \in DOMAIN positions |-> positions[k].riskLevel = "High"])
             mediumRiskCount == CountWhere([k \in DOMAIN positions |-> positions[k].riskLevel = "Medium"])
             individualRisk == Rat(highRiskCount * 10 + mediumRiskCount * 5, Len(positions))
             riskScore == JsMin(Rat(100, 1),
                                JsAdd(JsAdd(concentrationRisk, outOfRangeRisk), individualRisk))
         IN JsRound(riskScore)

(* The reduce of calculatePortfolioAge: the first position with the earliest createdAt *)
RECURSIVE OldestPosition(_)
OldestPosition(positions) ==
    IF Len(positions) = 1 THEN positions[1]
    ELSE LET n == Len(positions)
             oldest == OldestPosition(SubSeq(positions, 1, n - 1))
             pos == positions[n]
         IN IF pos.createdAt < oldest.createdAt THEN pos ELSE oldest

(* calculatePortfolioAge at clock reading t, in whole days *)
calculatePortfolioAge(positions, t) ==
    IF Len(positions) = 0 THEN 0
    ELSE JsFloorDiv(t - OldestPosition(positions).createdAt, DAY_MS)

(* Mutant of InsertByPnl: a position goes before the positions it ties with *)
InsertByPnlBeforeTies(sorted, pos) ==
    LET before == {k \in DOMAIN sorted : RatLess(pos.pnlPercentage, sorted[k].pnlPercentage)}
        n == Cardinality(before)
    IN SubSeq(sorted, 1, n) \o <<pos>> \o SubSeq(sorted, n + 1, Len(sorted))

(* One step of the stable sort with comparator b.pnlPercentage -                 *)
(* a.pnlPercentage: a position goes after every position whose pnlPercentage is  *)
(* not less than its own.                                                        *)
InsertByPnl(sorted, pos) ==
    LET before == {k \in DOMAIN sorted : RatLeq(pos.pnlPercentage, sorted[k].pnlPercentage)}
        n == Cardinality(before)
    IN SubSeq(sorted, 1, n) \o <<pos>> \o SubSeq(sorted, n + 1, Len(sorted))

(* [...positions].sort((a, b) => b.pnlPercentage - a.pnlPercentage) *)
RECURSIVE SortByPnlDesc(_)
SortByPnlDesc(positions) ==
    IF positions = <<>> THEN <<>>
    ELSE LET n == Len(positions)
         IN InsertByPnl(SortByPnlDesc(SubSeq(positions, 1, n - 1)), positions[n])

(* getEmptyPortfolioSummary: the zero-value summary; '' is the id with no text *)
getEmptyPortfolioSummary ==
    [totalValueUSD |-> 0, totalPnlUSD |-> 0, totalPnlPercentage |-> Rat(0, 1), totalFeesUSD |-> 0,
     activePositions |-> 0, inRangePositions |-> 0, outOfRangePositions |-> 0,
     riskScore |-> Rat(0, 1), topPerformer |-> Id(""), worstPerformer |-> Id(""),
     metrics |-> [diversificationScore |-> 0, averagePositionSize |-> Rat(0, 1),
                  largestPositionSize |-> 0, uniqueTokens |-> 0, portfolioAge |-> 0]]

(* The argument of getPortfolioSummary: an array of positions, an array some of  *)
(* whose elements are null or undefined (at the indices in nulls), or no array.  *)
ArrayArg(positions) == [kind |-> "array", positions |-> positions, nulls |-> {}]
NoArrayArg == [kind |-> "undefined", positions |-> <<>>, nulls |-> {}]

(* A statement of the try block throws a TypeError: positions.length on a        *)
(* missing array (line 254), pos.currentValueUSD on a missing element (line 261) *)
AggregationThrows(arg) ==
    \/ arg.kind # "array"
    \/ Len(arg.positions) > 0 /\ arg.nulls # {}

(* Mutant of CatchAggregationError: the catch rethrows *)
CatchAggregationErrorRethrow == [outcome |-> "raised", summary |-> getEmptyPortfolioSummary]

(* The catch of lines 312-315 *)
CatchAggregationError == [outcome |-> "returned", summary |-> getEmptyPortfolioSummary]

(* Mutant of CountActive: only positions holding value are counted *)
CountActiveWithValue(positions) ==
    Cardinality({k \in DOMAIN positions : positions[k].currentValueUSD > 0})

(* `positions.length`, line 275 *)
CountActive(positions) == Len(positions)

(* Lines 261-307, on a non-empty array of positions, at clock reading t *)
SummaryOf(positions, t) ==
    LET totalValueUSD == SumSeq(ValuesOf(positions))
        totalPnlUSD == SumSeq([k \in DOMAIN positions |-> positions[k].pnlUSD])
        totalFeesUSD == SumSeq([k \in DOMAIN positions |-> positions[k].totalFeesUSD])
        totalInitialUSD == SumSeq([k \in DOMAIN positions |-> positions[k].initialValueUSD])
        activePositions == CountActive(positions)
        inRangePositions == CountWhere([k \in DOMAIN positions |-> positions[k].inRange])
        sortedByPnl == SortByPnlDesc(positions)
    IN [totalValueUSD |-> totalValueUSD,
        totalPnlUSD |-> totalPnlUSD,
        totalPnlPercentage |-> IF totalInitialUSD > 0 THEN Rat(totalPnlUSD * 100, totalInitialUSD)
                               ELSE Rat(0, 1),
        totalFeesUSD |-> totalFeesUSD,
        activePositions |-> activePositions,
        inRangePositions |-> inRangePositions,
        outOfRangePositions |-> activePositions - inRangePositions,
        riskScore |-> calculatePortfolioRisk(positions),
        topPerformer |-> sortedByPnl[1].id,
        worstPerformer |-> sortedByPnl[Len(sortedByPnl)].id,
        metrics |-> [diversificationScore |-> calculateDiversificationScore(positions),
                     averagePositionSize |-> JsDiv(Rat(totalValueUSD, 1), Rat(activePositions, 1)),
                     largestPositionSize |-> MaxSeq(ValuesOf(positions)),
                     uniqueTokens |-> countUniqueTokens(positions),
                     portfolioAge |-> calculatePortfolioAge(positions, t)]]

(* getPortfolioSummary(arg) at clock reading t: it has no await, so it runs in one step *)
getPortfolioSummary(arg, t) ==
    IF AggregationThrows(arg) THEN CatchAggregationError
    ELSE IF Len(arg.positions) = 0
    THEN [outcome |-> "returned", summary |-> getEmptyPortfolioSummary]
    ELSE [outcome |-> "returned", summary |-> SummaryOf(arg.positions, t)]

(* The caller's array after the call: the sort works on the copy [...positions] *)
ArrayAfterSummary(positions) == positions

-----------------------------------------------------------------------------
(* Calls of getPortfolioSummary on one array, as the clock advances *)

(* How many calls of getPortfolioSummary are recorded *)
MaxSummaries == 2

(* Between two calls the clock advances by a millisecond or by a day *)
SummaryTickSteps == {1, DAY_MS}

(* Prices (USD) at which the positions of the array were valued *)
SummaryPrices == {FallbackPrice, 2}

(* Raw positions that processPosition can process: those of the ledger whose     *)
(* amounts can be read, and one more without bins that carries an id.            *)
SummaryRawPositions ==
    {r \in RawPositions : ~TokenAmountsThrow(r)}
        \cup {[id |-> <<"posE">>, lbPair |-> POOL_A, bins |-> <<>>,
               tokenXAmount |-> 0, tokenYAmount |-> 0]}

(* Positions as processPosition builds them, at clock reading 0 *)
ProcessedPositions ==
    {BuildPosition(r, LBPairOf(r.lbPair), px, py, 0) :
        r \in SummaryRawPositions, px \in SummaryPrices, py \in SummaryPrices}

(* The arrays getUserPositions can return: the demonstration set, and the        *)
(* processed positions of a ledger answer (none of them, when all failed).       *)
UserPositionArrays ==
    {getMockPositions(0)}
        \cup UNION {[1..n -> ProcessedPositions] : n \in 0..MaxPositions}

(* The arguments: those arrays, no array at all, and the demonstration set with  *)
(* a missing element.                                                            *)
SummaryArgs ==
    {ArrayArg(ps) : ps \in UserPositionArrays}
        \cup {NoArrayArg}
        \cup {[kind |-> "array", positions |-> getMockPositions(0), nulls |-> {k}] : k \in 1..3}

InitSummary ==
    /\ priceCache = <<>>
    /\ now = 0
    /\ ticks = 0
    /\ calls = <<>>
    /\ prior = <<>>
    /\ lastWriter = <<>>
    /\ gup = IdleGup
    /\ apy = IdleApy
    /\ hook = IdleHook
    /\ risk = IdleRisk
    /\ \E arg \in SummaryArgs :
          agg = [arg |-> arg, given |-> arg.positions, summaries |-> <<>>]

(* await dlmmService.getPortfolioSummary(positions), at the present clock reading *)
GetPortfolioSummary ==
    /\ Len(agg.summaries) < MaxSummaries
    /\ LET r == getPortfolioSummary(agg.arg, now) IN
       agg' = [agg EXCEPT !.summaries = Append(@, [at |-> now, outcome |-> r.outcome,
                                                    summary |-> r.summary]),
                          !.arg.positions = ArrayAfterSummary(@)]
    /\ UNCHANGED <<priceCache, now, ticks, calls, prior, lastWriter, gup, risk, apy, hook>>

SummaryTick(d) ==
    /\ ticks < MaxTicks
    /\ now' = now + d
    /\ ticks' = ticks + 1
    /\ UNCHANGED <<priceCache, calls, prior, lastWriter, gup, risk, agg, apy, hook>>

NextSummary ==
    \/ GetPortfolioSummary
    \/ \E d \in SummaryTickSteps : SummaryTick(d)

SpecSummary == InitSummary /\ [][NextSummary]_vars

-----------------------------------------------------------------------------
(* calculateAPY as a function of its arguments and of the clock *)

(* Powers are computed in thousandths and saturate at 20, beyond the point       *)
(* ((1 + r)^365 = 11) where the cap of line 389 takes over; a base below 0 is    *)
(* taken as 0, which like it gives a power below 1 and hence an APY of 0.        *)
PowScale == 1000
PowCeiling == 20000

Saturate(x) == Min(Max(x, 0), PowCeiling)

(* base^e for base and result in thousandths *)
RECURSIVE PowFixed(_, _)
PowFixed(base, e) ==
    IF e = 0 THEN PowScale
    ELSE LET half == PowFixed(base, e \div 2)
             square == Saturate((half * half) \div PowScale)
         IN IF e % 2 = 0 THEN square ELSE Saturate((square * base) \div PowScale)

(* Math.pow(1 + dailyReturn, 365), in thousandths *)
Pow365(dailyReturn) ==
    PowFixed(Saturate(((dailyReturn.den + dailyReturn.num) * PowScale) \div dailyReturn.den), 365)

(* `position.createdAt ? new Date(position.createdAt) : new Date(Date.now() - 7 days)`; *)
(* createdAt is absent (<<>>) or a time in ms                                            *)
ApyCreatedAt(createdAt, t) == IF createdAt # <<>> THEN createdAt[1] ELSE t - 7 * DAY_MS

(* Mutant of calculateAPY: the result is not capped *)
calculateAPYUncapped(createdAt, feesUSD, initialUSD, t) ==
    IF initialUSD <= 0 THEN Rat(0, 1)
    ELSE LET daysSinceCreation == Rat(t - ApyCreatedAt(createdAt, t), DAY_MS)
         IN IF RatLeq(daysSinceCreation, Rat(0, 1)) THEN Rat(0, 1)
            ELSE LET dailyReturn == RatDiv(Rat(feesUSD, initialUSD), daysSinceCreation)
                     annualizedReturn == Rat(Pow365(dailyReturn) - PowScale, PowScale)
                     uncapped == RatMul(annualizedReturn, Rat(100, 1))
                 IN IF RatLeq(Rat(0, 1), uncapped) THEN uncapped ELSE Rat(0, 1)

(* calculateAPY at clock reading t, in percent.  It has no await and nothing in  *)
(* its try block throws on numbers.                                              *)
calculateAPY(createdAt, feesUSD, initialUSD, t) ==
    IF initialUSD <= 0 THEN Rat(0, 1)
    ELSE LET daysSinceCreation == Rat(t - ApyCreatedAt(createdAt, t), DAY_MS)
         IN IF RatLeq(daysSinceCreation, Rat(0, 1)) THEN Rat(0, 1)
            ELSE LET dailyReturn == RatDiv(Rat(feesUSD, initialUSD), daysSinceCreation)
                     annualizedReturn == Rat(Pow365(dailyReturn) - PowScale, PowScale)
                     capped == RatMin(RatMul(annualizedReturn, Rat(100, 1)), Rat(1000, 1))
                 IN IF RatLeq(Rat(0, 1), capped) THEN capped ELSE Rat(0, 1)

(* Fees and initial values (milli-USD) handed to calculateAPY *)
ApyFees == {-100, 0, 100, 110, 5000}
ApyInitials == {-1000, 0, 1000, 12890, 13000}

(* position.createdAt, relative to the clock: absent, a day ago, two weeks ago,  *)
(* this very millisecond, a day ahead                                            *)
ApyCreatedAts(t) == {<<>>, <<t - DAY_MS>>, <<t - 14 * DAY_MS>>, <<t>>, <<t + DAY_MS>>}

ApyClockReadings == {0, DAY_MS}

InitApy ==
    /\ priceCache = <<>>
    /\ now = 0
    /\ ticks = 0
    /\ calls = <<>>
    /\ prior = <<>>
    /\ lastWriter = <<>>
    /\ gup = IdleGup
    /\ risk = IdleRisk
    /\ agg = IdleAgg
    /\ hook = IdleHook
    /\ \E t \in ApyClockReadings, f \in ApyFees, i \in ApyInitials :
          \E c \in ApyCreatedAts(t) :
              apy = [at |-> t, createdAt |-> c, feesUSD |-> f, initialUSD |-> i, result |-> <<>>]

(* await this.calculateAPY(position, feesUSD, initialValueUSD), line 122 *)
CalculateAPY ==
    /\ apy.result = <<>>
    /\ apy' = [apy EXCEPT !.result = <<calculateAPY(apy.createdAt, apy.feesUSD, apy.initialUSD, apy.at)>>]
    /\ UNCHANGED <<priceCache, now, ticks, calls, prior, lastWriter, gup, risk, agg, hook>>

NextApy == CalculateAPY

SpecApy == InitApy /\ [][NextApy]_vars

-----------------------------------------------------------------------------
(* The hook useSarosDLMM: wallet changes, effects, the interval timer and the    *)
(* fetchData runs.  A render and the effects it schedules are separate steps;    *)
(* the continuation after `await getPortfolioSummary(...)`, which resolves       *)
(* without I/O, is a microtask and runs before any timer, wallet or I/O event.   *)
(* getUserPositions and getPortfolioSummary never raise, so the catch of         *)
(* fetchData (lines 109-116) is not entered and error stays null.                *)

MaxRuns == 2
MaxHookTicks == 1
MaxWalletChanges == 2

(* setInterval(..., 60000) *)
REFRESH_INTERVAL == 60000

HookTickSteps == {REFRESH_INTERVAL}

(* useWallet(): not connected (<<>>) or connected with a public key *)
WALLET_A == "7xKXtg2CW87d97TXJSDpbD5jBkheTqA83TZRuJosgAsU"
WALLET_B == "9WzDXwBbmkg8ZTbNMqUxvQRAyrZzDsGYdLVL9zYtAWWM"
HookWallets == {<<>>, <<WALLET_A>>, <<WALLET_B>>}

(* What getUserPositions(wallet) may resolve to at clock reading t: the          *)
(* demonstration set, the wallet's one position, or nothing when it failed       *)
HookRawPosition(w) ==
    [id |-> <<IF w = WALLET_A THEN "posA" ELSE "posB">>, lbPair |-> POOL_A,
     bins |-> <<[tokenXAmount |-> BnAmount(2000000), tokenYAmount |-> BnAmount(3000000)]>>,
     tokenXAmount |-> 5, tokenYAmount |-> 0]

HookUserPositions(w, t) ==
    { getMockPositions(t),
      <<BuildPosition(HookRawPosition(w), LBPairOf(POOL_A), 2, FallbackPrice, t)>>,
      <<>> }

(* Mutant of WriteResult: a run that is not the newest started leaves the data alone *)
WriteResultIfNewest(h, k, t) ==
    IF k # Len(h.runs) THEN [h EXCEPT !.loading = FALSE]
    ELSE [h EXCEPT !.positions = h.runs[k].userPositions,
                   !.summary = h.runs[k].portfolioSummary,
                   !.lastUpdate = <<t>>,
                   !.loading = FALSE,
                   !.lastWrite = k]

(* Lines 103-105 and the finally of line 118 *)
WriteResult(h, k, t) ==
    [h EXCEPT !.positions = h.runs[k].userPositions,
              !.summary = h.runs[k].portfolioSummary,
              !.lastUpdate = <<t>>,
              !.loading = FALSE,
              !.lastWrite = k]

(* Mutant of ClearData: the positions are left in place *)
ClearDataKeepPositions(h) ==
    [h EXCEPT !.summary = <<>>, !.error = <<>>, !.lastUpdate = <<>>, !.lastWrite = -1]

(* Lines 80-83 and 170-173: the data is cleared (lastWrite -1 marks a clear) *)
ClearData(h) ==
    [h EXCEPT !.positions = <<>>, !.summary = <<>>, !.error = <<>>, !.lastUpdate = <<>>,
              !.lastWrite = -1]

(* fetchData of a render with wallet w, up to `await service.getUserPositions(...)` *)
FetchData(h, w, by, t) ==
    IF w = <<>> THEN ClearData(h)
    ELSE [h EXCEPT !.loading = TRUE, !.error = <<>>,
                   !.runs = Append(@, [wallet |-> w[1], by |-> by, pc |-> "positions",
                                       userPositions |-> <<>>, portfolioSummary |-> <<>>])]

(* setupAutoRefresh, lines 133-148, in a render with wallet w *)
setupAutoRefresh(h, w, t) ==
    [h EXCEPT !.intervalRef = <<h.nextTimer>>,
              !.timers = {x \in @ : h.intervalRef = <<>> \/ x.id # h.intervalRef[1]}
                            \cup {[id |-> h.nextTimer, wallet |-> w,
                                    due |-> t + REFRESH_INTERVAL]},
              !.nextTimer = @ + 1]

(* Mutant of cleanupAutoRefresh: the reference is dropped, the interval keeps running *)
cleanupAutoRefreshRefOnly(h) ==
    [h EXCEPT !.intervalRef = <<>>]

(* cleanupAutoRefresh, lines 153-159 *)
cleanupAutoRefresh(h) ==
    IF h.intervalRef = <<>> THEN h
    ELSE [h EXCEPT !.timers = {x \in @ : x.id # h.intervalRef[1]}, !.intervalRef = <<>>]

(* The wallet-connection effect, lines 162-175 *)
ConnectionEffect(h, t) ==
    IF h.wallet # <<>> THEN FetchData(h, h.wallet, "effect", t) ELSE ClearData(h)

(* The auto-refresh effect, lines 178-189: the cleanup of its previous run, then its body *)
AutoRefreshEffect(h, t) ==
    IF h.wallet # <<>> THEN setupAutoRefresh(cleanupAutoRefresh(h), h.wallet, t)
    ELSE cleanupAutoRefresh(cleanupAutoRefresh(h))

(* A continuation after `await getPortfolioSummary(...)` is queued: it runs first *)
NoMicrotask(h) == \A k \in DOMAIN h.runs : h.runs[k].pc # "summary"

InFlight(h) == {k \in DOMAIN h.runs : h.runs[k].pc # "done"}

Finished(h) == {k \in DOMAIN h.runs : h.runs[k].pc = "done"}

(* The hook right after its first render: lines 49-57, effects not yet run *)
InitHook ==
    /\ priceCache = <<>>
    /\ now = 0
    /\ ticks = 0
    /\ calls = <<>>
    /\ prior = <<>>
    /\ lastWriter = <<>>
    /\ gup = IdleGup
    /\ risk = IdleRisk
    /\ agg = IdleAgg
    /\ apy = IdleApy
    /\ \E w \in {<<>>, <<WALLET_A>>} :
          hook = [mounted |-> TRUE, wallet |-> w, effectsPending |-> TRUE, changes |-> 0,
                  positions |-> <<>>, summary |-> <<>>, loading |-> FALSE, error |-> <<>>,
                  lastUpdate |-> <<>>, intervalRef |-> <<>>, timers |-> {}, nextTimer |-> 1,
                  runs |-> <<>>, lastWrite |-> 0, lastDone |-> <<>>]

(* useWallet() reports another connection state or public key: the hook re-renders *)
WalletChanges(w) ==
    /\ hook # IdleHook
    /\ hook.mounted
    /\ NoMicrotask(hook)
    /\ hook.changes < MaxWalletChanges
    /\ w # hook.wallet
    /\ hook' = [hook EXCEPT !.wallet = w, !.effectsPending = TRUE, !.changes = @ + 1]
    /\ UNCHANGED <<priceCache, now, ticks, calls, prior, lastWriter, gup, risk, agg, apy>>

(* The component is removed: the effect cleanups are scheduled *)
Unmount ==
    /\ hook # IdleHook
    /\ hook.mounted
    /\ NoMicrotask(hook)
    /\ hook' = [hook EXCEPT !.mounted = FALSE, !.effectsPending = TRUE]
    /\ UNCHANGED <<priceCache, now, ticks, calls, prior, lastWriter, gup, risk, agg, apy>>

(* The effects of lines 162-189 run for the latest render, or their cleanup on unmount *)
RunEffects ==
    /\ hook # IdleHook
    /\ hook.effectsPending
    /\ NoMicrotask(hook)
    /\ (hook.mounted /\ hook.wallet # <<>>) => Len(hook.runs) < MaxRuns
    /\ hook' = [(IF hook.mounted THEN AutoRefreshEffect(ConnectionEffect(hook, now), now)
                 ELSE cleanupAutoRefresh(hook))
                EXCEPT !.effectsPending = FALSE]
    /\ UNCHANGED <<priceCache, now, ticks, calls, prior, lastWriter, gup, risk, agg, apy>>

(* The interval callback of lines 140-145 runs with the wallet of the render that set it *)
TimerFires ==
    /\ hook # IdleHook
    /\ NoMicrotask(hook)
    /\ Len(hook.runs) < MaxRuns
    /\ \E x \in hook.timers :
          /\ now >= x.due
          /\ LET fired == [hook EXCEPT !.timers = (@ \ {x}) \cup
                                           {[x EXCEPT !.due = @ + REFRESH_INTERVAL]}]
             IN hook' = IF x.wallet # <<>> THEN FetchData(fired, x.wallet, "timer", now)
                        ELSE fired
    /\ UNCHANGED <<priceCache, now, ticks, calls, prior, lastWriter, gup, risk, agg, apy>>

(* refreshData, lines 125-128, from the dashboard's button (shown when connected, *)
(* disabled while loading)                                                        *)
ManualRefresh ==
    /\ hook # IdleHook
    /\ hook.mounted
    /\ NoMicrotask(hook)
    /\ hook.wallet # <<>>
    /\ ~hook.loading
    /\ Len(hook.runs) < MaxRuns
    /\ hook' = FetchData(hook, hook.wallet, "manual", now)
    /\ UNCHANGED <<priceCache, now, ticks, calls, prior, lastWriter, gup, risk, agg, apy>>

(* Line 95 resolves; line 99 computes the summary and awaits it.  What a run does *)
(* after the unmount is not followed: its setState calls change nothing.         *)
PositionsSettle(k) ==
    /\ hook # IdleHook
    /\ hook.mounted
    /\ NoMicrotask(hook)
    /\ k \in DOMAIN hook.runs
    /\ hook.runs[k].pc = "positions"
    /\ \E ps \in HookUserPositions(hook.runs[k].wallet, now) :
          hook' = [hook EXCEPT !.runs[k].pc = "summary",
                               !.runs[k].userPositions = ps,
                               !.runs[k].portfolioSummary =
                                   <<getPortfolioSummary(ArrayArg(ps), now).summary>>]
    /\ UNCHANGED <<priceCache, now, ticks, calls, prior, lastWriter, gup, risk, agg, apy>>

(* Lines 103-118: the run writes its results, clears loading and ends; lastDone *)
(* records which run ended last and what it had fetched                         *)
RunCompletes(k) ==
    /\ hook # IdleHook
    /\ k \in DOMAIN hook.runs
    /\ hook.runs[k].pc = "summary"
    /\ hook' = [WriteResult(hook, k, now)
                EXCEPT !.runs[k].pc = "done",
                       !.runs[k].userPositions = <<>>,
                       !.runs[k].portfolioSummary = <<>>,
                       !.lastDone = <<[run |-> k, at |-> now,
                                       userPositions |-> hook.runs[k].userPositions,
                                       portfolioSummary |-> hook.runs[k].portfolioSummary]>>]
    /\ UNCHANGED <<priceCache, now, ticks, calls, prior, lastWriter, gup, risk, agg, apy>>

(* Time passes, never beyond the next firing of an interval; pending effects run first *)
HookTick(d) ==
    /\ hook # IdleHook
    /\ hook.mounted
    /\ NoMicrotask(hook)
    /\ ~hook.effectsPending
    /\ ticks < MaxHookTicks
    /\ \A x \in hook.timers : now + d <= x.due
    /\ now' = now + d
    /\ ticks' = ticks + 1
    /\ UNCHANGED <<priceCache, calls, prior, lastWriter, gup, risk, agg, apy, hook>>

NextHook ==
    \/ \E w \in HookWallets : WalletChanges(w)
    \/ Unmount
    \/ RunEffects
    \/ TimerFires
    \/ ManualRefresh
    \/ \E k \in 1..MaxRuns : PositionsSettle(k)
    \/ \E k \in 1..MaxRuns : RunCompletes(k)
    \/ \E d \in HookTickSteps : HookTick(d)

SpecHook == InitHook /\ [][NextHook]_vars

-----------------------------------------------------------------------------
(* Claims about the price cache, checked under SpecCache *)

SameMint(i, j) == calls[i].mint = calls[j].mint

(* Call j was made after call i had completed *)
After(i, j) == i \in prior[j]

(* Calls i and j overlapped: i was made first and had not completed when j was made *)
Overlap(i, j) == i < j /\ i \notin prior[j]

(* The oracle answered call k with an OK response and a payload carrying a usable price *)
Priced(k) ==
    /\ calls[k].pc = "done"
    /\ calls[k].fetched
    /\ calls[k].resp = "ok"
    /\ calls[k].body.parsed
    /\ calls[k].body.price # <<>>
    /\ calls[k].body.price[1] > 0

(* C6: getTokenPrice answers from the cache, without an oracle request, exactly   *)
(* when an entry for the id exists whose age now - fetchedAt is below 30000 ms;   *)
(* otherwise (no entry, or age >= 30000) it queries the oracle and, on success,   *)
(* returns the fetched price and replaces the entry with {price, now}.            *)
C6_CacheTtl ==
    \A k \in DOMAIN calls :
        LET c == calls[k] IN
        /\ (~c.fetched) <=> (c.seen # <<>> /\ c.start - c.seen[1].timestamp < 30000)
        /\ ~c.fetched => c.pc = "done" /\ c.ret = <<c.seen[1].price>> /\ ~c.wrote
        /\ Priced(k) =>
              /\ c.ret = c.body.price
              /\ c.mint \in DOMAIN priceCache
              /\ lastWriter[c.mint] = k =>
                    priceCache[c.mint] = [price |-> c.body.price[1], timestamp |-> c.end[1]]

(* C6 witness: an entry aged exactly 30000 ms was not used; the oracle was        *)
(* queried and its price replaced the entry.                                      *)
C6_Witness ==
    \E k \in DOMAIN calls :
        /\ calls[k].seen # <<>>
        /\ calls[k].start - calls[k].seen[1].timestamp = 30000
        /\ Priced(k)
        /\ priceCache[calls[k].mint] = [price |-> calls[k].body.price[1], timestamp |-> now]
        /\ priceCache[calls[k].mint] # calls[k].seen[1]

(* C7 as stated: any two calls for the same id whose starts are less than 30 s    *)
(* apart issue at most one oracle request between them.                           *)
C7_AtMostOneOracleCall ==
    \A i, j \in DOMAIN calls :
        (i < j /\ SameMint(i, j) /\ calls[j].start - calls[i].start < 30000)
            => ~(calls[i].fetched /\ calls[j].fetched)

(* C7 amended: two calls for the same id less than 30 s apart issue at most one   *)
(* oracle request between them when the second is made after the first has        *)
(* completed and the first, if it queried the oracle, had its response stored.    *)
C7_AtMostOneAfterStored ==
    \A i, j \in DOMAIN calls :
        ( /\ i < j /\ SameMint(i, j)
          /\ calls[j].start - calls[i].start < 30000
          /\ After(i, j)
          /\ calls[i].fetched => calls[i].wrote )
            => ~(calls[i].fetched /\ calls[j].fetched)

(* C7 witness: the first call fetched and stored a price, the second was made     *)
(* 29999 ms later and was answered from the cache.                                *)
C7_Witness ==
    \E i, j \in DOMAIN calls :
        /\ i < j /\ SameMint(i, j) /\ After(i, j)
        /\ calls[i].fetched /\ calls[i].wrote
        /\ calls[j].start - calls[i].start = 29999
        /\ ~calls[j].fetched
        /\ calls[j].ret = calls[i].ret

(* The oracle failed call k: a non-OK response, a network error, a malformed      *)
(* payload, or a payload with no price for the id.                                *)
OracleFailed(k) ==
    /\ calls[k].pc = "done"
    /\ calls[k].fetched
    /\ \/ calls[k].resp \in {"notok", "neterr"}
       \/ ~calls[k].body.parsed
       \/ calls[k].body.price = <<>>

(* Call j is the first call for the id made after call k completed *)
NextCallAfter(k, j) ==
    /\ SameMint(k, j) /\ After(k, j)
    /\ \A h \in DOMAIN calls : (SameMint(k, h) /\ After(k, h)) => j <= h

(* C8: on every kind of oracle failure getTokenPrice returns 1.0 and writes no    *)
(* cache entry for the id, so the next call for the id queries the oracle again.  *)
C8_FailureNotCached ==
    \A k \in DOMAIN calls :
        OracleFailed(k) =>
            /\ calls[k].ret = <<1>>
            /\ (\A h \in DOMAIN calls : (h # k /\ SameMint(h, k)) => ~calls[h].wrote)
                  => calls[k].mint \notin DOMAIN priceCache
            /\ \A j \in DOMAIN calls :
                  (NextCallAfter(k, j) /\ \A h \in DOMAIN calls : h # k => h \notin prior[j] \/ ~calls[h].wrote)
                      => calls[j].fetched

(* C9: two overlapping calls for the same id each return the price of their own   *)
(* oracle response, and once both have completed the entry for the id exists and  *)
(* is the {price, time} pair of the call whose response was handled last.         *)
C9_LastWriteWins ==
    \A i, j \in DOMAIN calls :
        (Overlap(i, j) /\ SameMint(i, j) /\ Priced(i) /\ Priced(j)) =>
            /\ calls[i].ret = calls[i].body.price
            /\ calls[j].ret = calls[j].body.price
            /\ calls[i].mint \in DOMAIN priceCache
            /\ LET w == lastWriter[calls[i].mint] IN
                 priceCache[calls[i].mint] =
                     [price |-> calls[w].ret[1], timestamp |-> calls[w].end[1]]

(* C9 witness: the call made first had its response handled last, with another    *)
(* price and at a later time than the call made second; its pair is the entry.    *)
C9_Witness ==
    \E i, j \in DOMAIN calls :
        /\ Overlap(i, j) /\ SameMint(i, j) /\ Priced(i) /\ Priced(j)
        /\ calls[i].ret # calls[j].ret
        /\ calls[i].end[1] > calls[j].end[1]
        /\ lastWriter[calls[i].mint] = i
        /\ priceCache[calls[i].mint] = [price |-> calls[i].ret[1], timestamp |-> calls[i].end[1]]

-----------------------------------------------------------------------------
(* Claims about getUserPositions, checked under Spec *)

Returned == gup.pc = "done" /\ gup.outcome = "returned"

(* Position k of the ledger's answer could be processed: its pool was found and *)
(* its bin amounts could be read.                                               *)
Processable(k) == gup.lookups[k] = "found" /\ ~TokenAmountsThrow(gup.raw[k])

(* The indices of the processable positions, in ledger order *)
ProcessableIndices == SelectSeq([k \in 1..Len(gup.lookups) |-> k], Processable)

(* The stated demonstration data: id, pair, value, profit (milli-USD), risk, range *)
DemoFacts ==
    << [id |-> "mock_pos_1", pair |-> <<"SOL", "-", "USDC">>, value |-> 5250000,
        pnl |-> 375000, risk |-> "Low", inRange |-> TRUE],
       [id |-> "mock_pos_2", pair |-> <<"USDC", "-", "USDT">>, value |-> 2480000,
        pnl |-> 25000, risk |-> "Low", inRange |-> TRUE],
       [id |-> "mock_pos_3", pair |-> <<"SOL", "-", "USDT">>, value |-> 2850000,
        pnl |-> -90000, risk |-> "High", inRange |-> FALSE] >>

IsDemoSet(ps) ==
    /\ Len(ps) = 3
    /\ \A k \in 1..3 :
        /\ ps[k].id = [text |-> DemoFacts[k].id, stamp |-> <<>>]
        /\ ps[k].pairName = DemoFacts[k].pair
        /\ ps[k].currentValueUSD = DemoFacts[k].value
        /\ ps[k].pnlUSD = DemoFacts[k].pnl
        /\ ps[k].riskLevel = DemoFacts[k].risk
        /\ ps[k].inRange = DemoFacts[k].inRange

(* Some step of the invocation is possible: the guard of a settle or resume action holds *)
FacadeCanStep ==
    \/ gup.pc \in {"ledger", "lbPair"}
    \/ gup.pc \in {"priceX", "priceY"} /\ gup.pcall # <<>>
          /\ gup.pcall[1].pc \in {"fetch", "json", "done"}

(* C1: getUserPositions never raises to its caller: for every wallet address,   *)
(* every ledger outcome and every pattern of per-position failures the call,    *)
(* while unfinished, can take a step, and when finished has returned an array.  *)
C1_NeverRaises ==
    /\ gup.outcome # "raised"
    /\ gup.pc = "done" => gup.outcome = "returned"
    /\ gup.pc \notin {"idle", "done"} => FacadeCanStep

(* C1 witness: a call on a well-formed address returned after the ledger gave   *)
(* positions of which one failed processing and one succeeded.                  *)
C1_Witness ==
    /\ Returned
    /\ ~PublicKeyThrows(gup.wallet)
    /\ gup.ledger = "some"
    /\ \E j, k \in 1..Len(gup.lookups) : Processable(j) /\ ~Processable(k)

(* C2: when the ledger fetch throws or returns zero positions, the call returns *)
(* exactly the three demonstration positions, in order, and has made no oracle  *)
(* request.                                                                     *)
C2_MockOnEmptyOrError ==
    (Returned /\ gup.ledger \in {"threw", "empty"}) =>
        /\ IsDemoSet(gup.result)
        /\ gup.requests = 0

(* C2 witness: the ledger returned zero positions and the call has returned *)
C2_Witness == Returned /\ gup.ledger = "empty" /\ Len(gup.result) = 3

(* C3: every array returned by getUserPositions is non-empty *)
C3_NonEmptyResult == Returned => Len(gup.result) > 0

(* C4: with n >= 1 raw positions a failed position does not abort the batch:    *)
(* every raw position is attempted, and the returned array is exactly the       *)
(* successfully processed positions, in ledger order.                           *)
C4_SkipFailures ==
    (Returned /\ gup.ledger = "some") =>
        /\ Len(gup.lookups) = Len(gup.raw)
        /\ Len(gup.result) = Len(ProcessableIndices)
        /\ Len(gup.result) <= Len(gup.raw)
        /\ \A k \in 1..Len(gup.result) :
            LET position == gup.raw[ProcessableIndices[k]] IN
            /\ gup.result[k].poolAddress = position.lbPair
            /\ position.id # <<>> => gup.result[k].id = [text |-> position.id[1], stamp |-> <<>>]
            /\ position.id = <<>> => gup.result[k].id.stamp # <<>>

(* C4 witness: the first raw position failed, the second was processed and is   *)
(* the only one returned.                                                       *)
C4_Witness ==
    /\ Returned /\ gup.ledger = "some"
    /\ Len(gup.raw) >= 2
    /\ ~Processable(1) /\ Processable(2)
    /\ Len(gup.result) >= 1
    /\ gup.result[1].poolAddress = gup.raw[2].lbPair

(* C5 as stated: a malformed wallet address reaches the caller as an exception  *)
(* and no position array is returned for it.                                    *)
C5_MalformedAddressRaises ==
    (gup.pc = "done" /\ PublicKeyThrows(gup.wallet)) =>
        gup.outcome = "raised" /\ gup.result = <<>>

(* C5 amended: a malformed wallet address is caught inside getUserPositions:    *)
(* nothing is raised, the ledger is not queried, and the three demonstration    *)
(* positions are returned.                                                      *)
C5_MalformedAddressReturnsMock ==
    (gup.pc # "idle" /\ PublicKeyThrows(gup.wallet)) =>
        /\ Returned
        /\ gup.ledger = "none"
        /\ IsDemoSet(gup.result)

(* C5 witness: a call with a malformed address has completed *)
C5_Witness == gup.pc = "done" /\ PublicKeyThrows(gup.wallet) /\ gup.wallet # ""

(* pnlUSD and pnlPercentage agree with the three USD figures of the position *)
PnlConsistent(p) ==
    /\ p.pnlUSD = p.currentValueUSD - p.initialValueUSD + p.totalFeesUSD
    /\ IF p.initialValueUSD > 0
       THEN p.pnlPercentage.num * p.initialValueUSD = p.pnlUSD * 100 * p.pnlPercentage.den
       ELSE p.pnlPercentage.num = 0

(* C10: every position returned by getUserPositions, processed or demonstration, *)
(* has pnlUSD = currentValueUSD - initialValueUSD + totalFeesUSD and             *)
(* pnlPercentage = pnlUSD / initialValueUSD * 100, or 0 when initialValueUSD <= 0. *)
C10_PnlConsistent ==
    Returned => \A k \in 1..Len(gup.result) : PnlConsistent(gup.result[k])

(* C10 witness: a returned processed position with a positive initial value and *)
(* one with initial value 0.                                                    *)
C10_Witness ==
    /\ Returned /\ gup.ledger = "some"
    /\ \E j, k \in 1..Len(gup.result) :
        /\ gup.result[j].initialValueUSD > 0 /\ gup.result[j].pnlPercentage.num > 0
        /\ gup.result[k].initialValueUSD = 0 /\ gup.result[k].totalFeesUSD > 0

(* The classification of section 4.3b, for lower > 0 and upper # 0 *)
RiskClass(lower, upper, current) ==
    LET rangePct == RatDiv(RatSub(upper, lower), lower)
        minDist == RatMin(RatDiv(RatSub(current, lower), lower),
                          RatDiv(RatSub(upper, current), upper))
    IN IF RatLess(rangePct, Rat(5, 100)) /\ RatLess(minDist, Rat(2, 100)) THEN "High"
       ELSE IF RatLess(rangePct, Rat(5, 100)) \/ RatLess(minDist, Rat(5, 100)) THEN "Medium"
       ELSE "Low"

RiskTriple(p) == <<p.priceRangeLower, p.priceRangeUpper, p.currentPrice>>

(* C11: every position returned by getUserPositions, processed or demonstration, *)
(* carries the risk level that the section 4.3b classification gives for its own *)
(* (priceRangeLower, priceRangeUpper, currentPrice), and two returned positions  *)
(* with the same triple carry the same risk level.                               *)
C11_RiskLevelOfTriple ==
    Returned =>
        /\ \A k \in 1..Len(gup.result) :
              LET p == gup.result[k] IN
              p.riskLevel = RiskClass(p.priceRangeLower, p.priceRangeUpper, p.currentPrice)
        /\ \A j, k \in 1..Len(gup.result) :
              RiskTriple(gup.result[j]) = RiskTriple(gup.result[k])
                  => gup.result[j].riskLevel = gup.result[k].riskLevel

(* C11 holds for the processed positions: the part of the claim the code keeps *)
C11_ProcessedRiskLevelOfTriple ==
    (Returned /\ gup.ledger = "some") =>
        \A k \in 1..Len(gup.result) :
            LET p == gup.result[k] IN
            p.riskLevel = RiskClass(p.priceRangeLower, p.priceRangeUpper, p.currentPrice)

(* The ledger's own ids are pairwise distinct: no two raw positions carry the same id *)
RawIdsDistinct ==
    \A j, k \in 1..Len(gup.raw) :
        (j # k /\ gup.raw[j].id # <<>> /\ gup.raw[k].id # <<>>) => gup.raw[j].id # gup.raw[k].id

(* C20: within the array returned by one getUserPositions call position ids are  *)
(* pairwise distinct, also when several raw positions carry no id and get the    *)
(* fallback id built from the millisecond clock.                                 *)
C20_DistinctIds ==
    (Returned /\ RawIdsDistinct) =>
        \A j, k \in 1..Len(gup.result) : j # k => gup.result[j].id # gup.result[k].id

-----------------------------------------------------------------------------
(* Claims about calculateRiskLevel, checked under SpecRisk *)

Severity(level) == IF level = "Low" THEN 0 ELSE IF level = "Medium" THEN 1 ELSE 2

(* Evaluation b was made on a range shrunk from that of evaluation a, at the     *)
(* same current price: 0 < lower <= lower' <= current <= upper' <= upper and     *)
(* lower' < upper'.                                                              *)
Shrunk(a, b) ==
    /\ a.current = b.current
    /\ 0 < a.lower /\ a.lower <= b.lower /\ b.lower <= b.current
    /\ b.current <= b.upper /\ b.upper <= a.upper
    /\ b.lower < b.upper

(* C12: calculateRiskLevel is monotone under range shrinking: the risk level of  *)
(* the shrunk range is at least as severe (Low < Medium < High) as that of the   *)
(* range it was shrunk from.                                                     *)
C12_MonotoneUnderShrinking ==
    \A i, j \in DOMAIN risk.evals :
        Shrunk(risk.evals[i], risk.evals[j])
            => Severity(risk.evals[j].level) >= Severity(risk.evals[i].level)

(* C12 witness: a range classified Low was shrunk to one classified High *)
C12_Witness ==
    \E i, j \in DOMAIN risk.evals :
        /\ i < j
        /\ Shrunk(risk.evals[i], risk.evals[j])
        /\ risk.evals[i].level = "Low"
        /\ risk.evals[j].level = "High"

(* C13: with lower = 0, where the computation divides by zero, calculateRiskLevel *)
(* returns Medium for every upper and current.                                    *)
C13_ZeroLowerIsMedium ==
    \A k \in DOMAIN risk.evals :
        risk.evals[k].lower = 0 => risk.evals[k].level = "Medium"

-----------------------------------------------------------------------------
(* Claims about getPortfolioSummary, checked under SpecSummary *)

(* The argument is an array all of whose elements are positions *)
WellFormedArg == agg.arg.kind = "array" /\ agg.arg.nulls = {}

(* The call returned the summary of its positions, not the zero-value summary *)
Aggregated == WellFormedArg /\ Len(agg.given) > 0

(* Every numeric field 0, both performers the empty string, every metrics field 0 *)
IsZeroSummary(s) ==
    /\ s.totalValueUSD = 0 /\ s.totalPnlUSD = 0 /\ s.totalFeesUSD = 0
    /\ s.totalPnlPercentage.num = 0 /\ s.totalPnlPercentage.den # 0
    /\ s.activePositions = 0 /\ s.inRangePositions = 0 /\ s.outOfRangePositions = 0
    /\ s.riskScore.num = 0 /\ s.riskScore.den # 0
    /\ s.topPerformer = [text |-> "", stamp |-> <<>>]
    /\ s.worstPerformer = [text |-> "", stamp |-> <<>>]
    /\ s.metrics.diversificationScore = 0
    /\ s.metrics.averagePositionSize.num = 0 /\ s.metrics.averagePositionSize.den # 0
    /\ s.metrics.largestPositionSize = 0
    /\ s.metrics.uniqueTokens = 0
    /\ s.metrics.portfolioAge = 0

(* C14: every summary returned by getPortfolioSummary has inRangePositions +     *)
(* outOfRangePositions = activePositions, and activePositions is the number of   *)
(* input positions (0 for the zero-value summary).                               *)
C14_RangeCountsAddUp ==
    \A k \in DOMAIN agg.summaries :
        LET s == agg.summaries[k].summary IN
        /\ s.inRangePositions + s.outOfRangePositions = s.activePositions
        /\ s.inRangePositions >= 0 /\ s.outOfRangePositions >= 0
        /\ s.activePositions = IF Aggregated THEN Len(agg.given) ELSE 0

(* C14 witness: a summary of two or more positions, some in range and some not *)
C14_Witness ==
    \E k \in DOMAIN agg.summaries :
        LET s == agg.summaries[k].summary IN
        /\ Aggregated
        /\ s.activePositions >= 2
        /\ s.inRangePositions >= 1
        /\ s.outOfRangePositions >= 1

(* C15: every summary returned for an array that getUserPositions can produce    *)
(* has riskScore a number in [0, 100], also when every position has             *)
(* currentValueUSD = 0.                                                          *)
C15_RiskScoreInRange ==
    \A k \in DOMAIN agg.summaries :
        LET r == agg.summaries[k].summary.riskScore IN
        WellFormedArg =>
            /\ r.den # 0
            /\ 0 <= r.num
            /\ r.num <= 100 * r.den

(* C15 holds for the arrays whose total value is positive *)
C15_RiskScoreInRangeWithValue ==
    \A k \in DOMAIN agg.summaries :
        LET r == agg.summaries[k].summary.riskScore IN
        (Aggregated /\ agg.summaries[k].summary.totalValueUSD > 0) =>
            /\ r.den = 1
            /\ 0 <= r.num
            /\ r.num <= 100

(* C16: getPortfolioSummary never raises and always returns a summary; for an    *)
(* empty array, and whenever a statement of the aggregation throws, it returns   *)
(* the zero-value summary.                                                       *)
C16_ZeroSummaryOnEmptyOrError ==
    \A k \in DOMAIN agg.summaries :
        /\ agg.summaries[k].outcome = "returned"
        /\ ~Aggregated => IsZeroSummary(agg.summaries[k].summary)

(* C16 witness: a call on an array with a missing element, where reading the     *)
(* element's value throws, returned the zero-value summary.                      *)
C16_Witness ==
    \E k \in DOMAIN agg.summaries :
        /\ agg.arg.kind = "array"
        /\ agg.arg.nulls # {}
        /\ Len(agg.given) > 0
        /\ agg.summaries[k].outcome = "returned"
        /\ IsZeroSummary(agg.summaries[k].summary)

(* C17: two calls of getPortfolioSummary on the same unchanged array return      *)
(* summaries identical in every field, metrics.portfolioAge included, whenever   *)
(* the two calls are made, and the array is left unmodified.                     *)
C17_Idempotent ==
    /\ agg.arg.positions = agg.given
    /\ \A i, j \in DOMAIN agg.summaries :
          agg.summaries[i].summary = agg.summaries[j].summary

(* C17 holds for the array, and for every field but metrics.portfolioAge *)
C17_IdempotentButAge ==
    /\ agg.arg.positions = agg.given
    /\ \A i, j \in DOMAIN agg.summaries :
          [agg.summaries[i].summary EXCEPT !.metrics.portfolioAge = 0]
              = [agg.summaries[j].summary EXCEPT !.metrics.portfolioAge = 0]

(* The indices of the positions whose pnlPercentage no other exceeds, and of     *)
(* those whose pnlPercentage exceeds no other.                                   *)
MaxPnlIndices(ps) ==
    {k \in DOMAIN ps : \A h \in DOMAIN ps : RatLeq(ps[h].pnlPercentage, ps[k].pnlPercentage)}
MinPnlIndices(ps) ==
    {k \in DOMAIN ps : \A h \in DOMAIN ps : RatLeq(ps[k].pnlPercentage, ps[h].pnlPercentage)}

(* C18: for a non-empty array topPerformer is the id of the earliest position,   *)
(* in input order, among those with maximal pnlPercentage, and worstPerformer    *)
(* the id of the latest among those with minimal pnlPercentage; with one         *)
(* position both are its id.                                                     *)
C18_TopAndWorstPerformer ==
    \A k \in DOMAIN agg.summaries :
        Aggregated =>
            LET ps == agg.given
                s == agg.summaries[k].summary
                top == CHOOSE i \in MaxPnlIndices(ps) : \A h \in MaxPnlIndices(ps) : i <= h
                worst == CHOOSE i \in MinPnlIndices(ps) : \A h \in MinPnlIndices(ps) : i >= h
            IN /\ s.topPerformer = ps[top].id
               /\ s.worstPerformer = ps[worst].id
               /\ Len(ps) = 1 => s.topPerformer = ps[1].id /\ s.worstPerformer = ps[1].id

(* C18 witness: two positions with different ids tie for the maximum, and two    *)
(* tie for the minimum; the earlier is topPerformer and the later worstPerformer *)
C18_Witness ==
    \E k \in DOMAIN agg.summaries :
        LET ps == agg.given
            s == agg.summaries[k].summary
        IN /\ Aggregated
           /\ \E i, j \in MaxPnlIndices(ps) :
                 i < j /\ ps[i].id # ps[j].id /\ s.topPerformer = ps[i].id
           /\ \E i, j \in MinPnlIndices(ps) :
                 i < j /\ ps[i].id # ps[j].id /\ s.worstPerformer = ps[j].id

(* round(min(100, (5250/10580)*50 + (1/3)*30 + (10*1 + 5*0)/3)) *)
DemoRiskScoreFormula ==
    JsRound(RatMin(Rat(100, 1),
                   RatAdd(RatAdd(RatMul(Rat(5250, 10580), Rat(50, 1)), RatMul(Rat(1, 3), Rat(30, 1))),
                          Rat(10 * 1 + 5 * 0, 3))))

(* min(100, min(50, 3*10) + min(50, 3*5)) *)
DemoDiversificationFormula == Min(100, Min(50, 3 * 10) + Min(50, 3 * 5))

(* C19: for the three demonstration positions getPortfolioSummary returns        *)
(* riskScore 38, the rounded value of the risk formula on values                *)
(* [5250, 2480, 2850] with one position out of range and one High, and           *)
(* metrics.diversificationScore 45, the value of the diversification formula on  *)
(* three positions and three tokens.                                             *)
C19_DemoScores ==
    \A k \in DOMAIN agg.summaries :
        (WellFormedArg /\ IsDemoSet(agg.given)) =>
            /\ agg.summaries[k].summary.riskScore = [num |-> 38, den |-> 1]
            /\ agg.summaries[k].summary.riskScore = DemoRiskScoreFormula
            /\ agg.summaries[k].summary.metrics.diversificationScore = 45
            /\ agg.summaries[k].summary.metrics.diversificationScore = DemoDiversificationFormula

(* C19 witness: the demonstration positions have been summarised *)
C19_Witness ==
    \E k \in DOMAIN agg.summaries :
        /\ WellFormedArg
        /\ IsDemoSet(agg.given)
        /\ agg.summaries[k].summary.activePositions = 3
        /\ agg.summaries[k].summary.metrics.uniqueTokens = 3

-----------------------------------------------------------------------------
(* Further claims about the price cache (SpecCache) and about processPosition (Spec) *)

(* Call k found an expired entry and its refreshing oracle query failed with a   *)
(* non-OK response or a network error.                                           *)
FailedRefresh(c) ==
    /\ c.seen # <<>>
    /\ c.start - c.seen[1].timestamp >= 30000
    /\ c.pc = "done"
    /\ c.resp \in {"notok", "neterr"}

(* C30: no step removes a key from the price cache, and a step in which an       *)
(* oracle query fails (non-OK response or network error) leaves the map          *)
(* unchanged; a call that found an expired entry and whose refresh failed        *)
(* returns the fallback 1.0, not the stale price.                                *)
C30_FailureKeepsCache ==
    [][ /\ DOMAIN priceCache \subseteq DOMAIN priceCache'
        /\ \A k \in DOMAIN calls :
              (calls[k].pc = "fetch" /\ calls'[k].pc = "done") =>
                  /\ priceCache' = priceCache
                  /\ calls'[k].ret = <<1>>
                  /\ calls'[k].seen # <<>> => calls'[k].mint \in DOMAIN priceCache' ]_vars

(* C30 witness: a call found an expired entry with a price other than 1.0, its   *)
(* refresh failed, it returned 1.0 and the stale entry is still in the map.      *)
C30_Witness ==
    \E k \in DOMAIN calls :
        /\ FailedRefresh(calls[k])
        /\ calls[k].seen[1].price # 1
        /\ calls[k].ret = <<1>>
        /\ priceCache[calls[k].mint] = calls[k].seen[1]

(* C22: within one getUserPositions call the raw positions are processed one at  *)
(* a time in input order (position i + 1 starts once position i has completed    *)
(* or failed), and a price request of a position goes to the oracle only when    *)
(* the cache holds no entry for the token younger than 30 s: a price cached by   *)
(* an earlier position is reused.                                                *)
C22_SequentialReuse ==
    /\ gup.pc \in {"lbPair", "priceX", "priceY"} =>
          /\ gup.i \in 1..Len(gup.raw)
          /\ Len(gup.lookups) = (IF gup.pc = "lbPair" THEN gup.i - 1 ELSE gup.i)
          /\ Len(gup.processed) <= gup.i - 1
    /\ (gup.pc \in {"priceX", "priceY"} /\ gup.pcall[1].pc \in {"fetch", "json"}) =>
          LET c == gup.pcall[1] IN
          ~(c.mint \in DOMAIN priceCache /\ c.start - priceCache[c.mint].timestamp < 30000)
    /\ (gup.pc \in {"priceX", "priceY"} /\ ~gup.pcall[1].fetched) =>
          LET c == gup.pcall[1] IN
          /\ c.mint \in DOMAIN priceCache
          /\ c.ret = <<priceCache[c.mint].price>>

(* C22 witness: the second position of a batch got a token's price from the      *)
(* entry cached while the first position was processed, without an oracle call.  *)
C22_Witness ==
    /\ gup.pc \in {"priceX", "priceY"}
    /\ gup.i = 2
    /\ Len(gup.processed) = 1
    /\ ~gup.pcall[1].fetched
    /\ gup.requests >= 1
    /\ priceCache[gup.pcall[1].mint].price # 1

(* A returned array of processed (not demonstration) positions *)
ReturnedProcessed == Returned /\ gup.ledger = "some"

(* C28: every position produced by processPosition has priceRangeLower 0.9 and   *)
(* priceRangeUpper 1.1 whatever its bins and pool; its riskLevel is Low or       *)
(* Medium, never High; its inRange is true exactly when 0.9 <= priceY / priceX   *)
(* <= 1.1.                                                                       *)
C28_FixedPriceRange ==
    ReturnedProcessed =>
        \A k \in 1..Len(gup.result) :
            LET p == gup.result[k] IN
            /\ p.priceRangeLower = [num |-> 9, den |-> 10]
            /\ p.priceRangeUpper = [num |-> 11, den |-> 10]
            /\ p.riskLevel \in {"Low", "Medium"}
            /\ p.inRange <=> (9 * p.currentPrice.den <= 10 * p.currentPrice.num
                                 /\ 10 * p.currentPrice.num <= 11 * p.currentPrice.den)

(* C28 witness: positions with and without bins, one in range and Low, one out   *)
(* of range and Medium.                                                          *)
C28_Witness ==
    /\ ReturnedProcessed
    /\ \E j, k \in 1..Len(gup.result) :
          /\ gup.result[j].activeBins > 0 /\ gup.result[k].activeBins = 0
          /\ \E h \in {j, k} : gup.result[h].inRange /\ gup.result[h].riskLevel = "Low"
          /\ \E h \in {j, k} : ~gup.result[h].inRange /\ gup.result[h].riskLevel = "Medium"

(* C29: every position produced by processPosition has initialValueUSD >= 0,     *)
(* totalFeesUSD >= 0.10 USD and pnlUSD = totalFeesUSD + min(currentValueUSD,     *)
(* totalFeesUSD) > 0; its pnlPercentage is 0 exactly when currentValueUSD <=     *)
(* totalFeesUSD.                                                                 *)
C29_NeverALoss ==
    ReturnedProcessed =>
        \A k \in 1..Len(gup.result) :
            LET p == gup.result[k] IN
            /\ p.initialValueUSD >= 0
            /\ p.totalFeesUSD >= 100
            /\ p.pnlUSD > 0
            /\ p.pnlUSD = p.totalFeesUSD + (IF p.currentValueUSD <= p.totalFeesUSD
                                             THEN p.currentValueUSD ELSE p.totalFeesUSD)
            /\ (p.pnlPercentage.num = 0) <=> (p.currentValueUSD <= p.totalFeesUSD)

(* C29 witness: a position worth more than its fees, whose profit is twice the   *)
(* fees, and a position worth less than its fees, whose pnlPercentage is 0.      *)
C29_Witness ==
    /\ ReturnedProcessed
    /\ \E j, k \in 1..Len(gup.result) :
          /\ gup.result[j].currentValueUSD > gup.result[j].totalFeesUSD
          /\ gup.result[j].pnlUSD = 2 * gup.result[j].totalFeesUSD
          /\ gup.result[k].currentValueUSD < gup.result[k].totalFeesUSD
          /\ gup.result[k].pnlPercentage.num = 0

-----------------------------------------------------------------------------
(* Claim about calculateAPY, checked under SpecApy *)

(* The days from createdAt (7 days before now when absent) to now, as a rational *)
ApyDays == Rat(apy.at - (IF apy.createdAt = <<>> THEN apy.at - 7 * DAY_MS ELSE apy.createdAt[1]), DAY_MS)

(* min(1000, max(0, ((1 + feesUSD / initialUSD / days)^365 - 1) * 100)) *)
ApyFormula ==
    LET x == RatMul(Rat(Pow365(RatDiv(Rat(apy.feesUSD, apy.initialUSD), ApyDays)) - PowScale, PowScale),
                    Rat(100, 1))
        floored == IF RatLeq(x, Rat(0, 1)) THEN Rat(0, 1) ELSE x
    IN RatMin(Rat(1000, 1), floored)

(* C24: the apy of a processed position lies in [0, 1000]; it is 0 whenever      *)
(* initialUSD <= 0 or daysSinceCreation <= 0, and otherwise it is                *)
(* min(1000, max(0, ((1 + feesUSD / initialUSD / days)^365 - 1) * 100)), with    *)
(* days counted from createdAt, or from 7 days before now when the raw position  *)
(* has no createdAt.                                                             *)
C24_ApyCappedAndFloored ==
    apy.result # <<>> =>
        LET r == apy.result[1] IN
        /\ r.den > 0
        /\ 0 <= r.num
        /\ r.num <= 1000 * r.den
        /\ (apy.initialUSD <= 0 \/ ApyDays.num <= 0) => r.num = 0
        /\ (apy.initialUSD > 0 /\ ApyDays.num > 0) => r = ApyFormula

(* C24 witness: a position without createdAt, seven days of fees on a positive   *)
(* initial value, got an APY strictly between 0 and the cap.                     *)
C24_Witness ==
    /\ apy.result # <<>>
    /\ apy.createdAt = <<>>
    /\ apy.initialUSD > 0
    /\ apy.feesUSD > 0
    /\ ApyDays = [num |-> 7, den |-> 1]
    /\ apy.result[1].num > 0
    /\ apy.result[1].num < 1000 * apy.result[1].den

-----------------------------------------------------------------------------
(* Claims about the hook, checked under SpecHook *)

(* C21: when fetchData runs overlap, the positions, summary and lastUpdate held  *)
(* are those written by whichever run completed last, even if that run started  *)
(* first (unless the data was cleared since).                                   *)
C21_LastCompleterWins ==
    (hook.mounted /\ hook.lastDone # <<>> /\ hook.lastWrite # -1) =>
        /\ hook.positions = hook.lastDone[1].userPositions
        /\ hook.summary = hook.lastDone[1].portfolioSummary
        /\ hook.lastUpdate = <<hook.lastDone[1].at>>

(* Run 1 started before run 2 and completed after it: its data is what is held *)
C21_Witness ==
    /\ hook.mounted
    /\ Finished(hook) = {1, 2}
    /\ hook.lastDone # <<>>
    /\ hook.lastDone[1].run = 1
    /\ hook.lastWrite = 1
    /\ Len(hook.positions) > 0
    /\ hook.positions = hook.lastDone[1].userPositions

(* The effects of the latest render have run on a mounted hook with a wallet *)
Connected(h) == h.mounted /\ h.wallet # <<>> /\ ~h.effectsPending

(* The effects (or the unmount cleanup) have run and there is no wallet or no hook *)
Disconnected(h) == (~h.mounted \/ h.wallet = <<>>) /\ ~h.effectsPending

(* At most one interval is active and intervalRef names it; once the effects    *)
(* have run there is exactly one while connected, set for the current wallet    *)
(* and due within 60 s, and none after a disconnect or an unmount               *)
OneTimer(h, t) ==
    /\ Cardinality(h.timers) <= 1
    /\ {x.id : x \in h.timers} = {h.intervalRef[i] : i \in DOMAIN h.intervalRef}
    /\ Connected(h) =>
          \E x \in h.timers :
              x.wallet = h.wallet /\ t <= x.due /\ x.due <= t + REFRESH_INTERVAL
    /\ Disconnected(h) => h.timers = {}

(* A step that starts a fetchData run from the interval callback *)
AutoFetchStarts ==
    /\ Len(hook'.runs) = Len(hook.runs) + 1
    /\ hook'.runs[Len(hook'.runs)].by = "timer"

C25_DisconnectedIsEmpty ==
    (hook.mounted /\ hook.wallet = <<>> /\ ~hook.effectsPending) =>
        (hook.positions = <<>> /\ hook.summary = <<>>)

(* C26: loading is true exactly while at least one fetchData run is in flight;   *)
(* the completion of one run does not clear it while another is in flight.      *)
C26_LoadingIffInFlight ==
    hook.mounted => (hook.loading <=> InFlight(hook) # {})

(* C27: the positions and the summary held come from the same fetchData run: a    *)
(* non-null summary is the one computed from exactly the positions held (at the  *)
(* moment recorded in lastUpdate), and a null summary goes with no positions,    *)
(* whatever the interleaving of refreshes, connects and disconnects.             *)
C27_SummaryMatchesPositions ==
    /\ hook.summary = <<>> => hook.positions = <<>>
    /\ hook.summary # <<>> =>
          /\ hook.lastUpdate # <<>>
          /\ hook.summary[1] =
                getPortfolioSummary(ArrayArg(hook.positions), hook.lastUpdate[1]).summary

(* Two runs that fetched different positions have both completed, after a wallet *)
(* change, and a non-empty portfolio is held                                     *)
C27_Witness ==
    /\ hook.mounted
    /\ hook.changes > 0
    /\ Cardinality(Finished(hook)) >= 2
    /\ hook.summary # <<>>
    /\ Len(hook.positions) > 0

====
